---------------------------- MODULE Spec2Model ----------------------------
(***************************************************************************)
(* State-machine model of the XOR trading platform's engine room:          *)
(*   - risk-engine/engine/core.py        RiskEngine                        *)
(*   - risk-engine/engine/kill_switch.py KillSwitch                        *)
(*   - backend/app/services/order_service.py, api/v1/orders.py  orders     *)
(*   - strategy-engine/engine/strategies/grid.py  GridStrategy             *)
(*   - strategy-engine/engine/strategies/dca.py   DCAStrategy              *)
(*   - strategy-engine/engine/strategies/scalping.py  ScalpingStrategy     *)
(*   - strategy-engine/engine/core.py             StrategyEngine           *)
(*   - backend/app/core/events.py, strategy-engine/engine/event_bus.py     *)
(*                                                 the two EventBus classes *)
(*   - backend/app/services/bot_service.py, api/v1/bots.py   Bot rows      *)
(*   - exchange-adapter/adapters/binance, bybit   BinanceAdapter,          *)
(*                                                 BybitAdapter             *)
(*                                                                         *)
(* Numbers.  The Python code computes with floats; the model computes with *)
(* integers and compares percentages exactly, by cross-multiplication      *)
(* (a / b * 100 > c  is  a * 100 > c * b  for b > 0).  IEEE-754 rounding   *)
(* is outside the model.  A percentage that is stored rather than compared *)
(* is kept as the pair <<numerator, denominator>>.                         *)
(* Optional values: None is the empty sequence, a present value v is <<v>>.*)
(***************************************************************************)
EXTENDS Integers, Sequences, FiniteSets, TLC

(***************************************************************************)
(* Bounds of the model                                                     *)
(***************************************************************************)
MaxDay == 2          \* UTC days the clock runs through
MaxEvents == 2       \* length of KillSwitch.events the model explores
MaxOrders == 2       \* order rows the model creates
MaxFills == 3        \* fills of DCA orders with a quantity
MaxClockSteps == 3   \* steps the clock of the scalping strategy advances
PriceHistoryKept == 2  \* prices the model keeps of price_history (maxlen 100)
MaxPublished == 2    \* events published on an event bus
MaxBotClock == 2     \* clock readings while a bot row is worked on
MaxSessions == 4     \* HTTP client sessions an adapter creates
MaxTypeLen == 3      \* tokens of an event type given to the pattern matchers
MaxPositionPrice == 3  \* highest price a position row is opened or marked at
MaxRegistryEntries == 3  \* entries, holes included, of the strategy registry

(***************************************************************************)
(* Program constants: the defaults of RiskLimits                           *)
(***************************************************************************)
DefaultMaxDrawdownPercent == 10
DefaultMaxPositionSizePercent == 5
DefaultDailyLossLimitPercent == 3
DefaultMaxLeverage == 10
DefaultMaxOpenPositions == 10

(***************************************************************************)
(* Program constants: the defaults of ScalpingStrategy                     *)
(***************************************************************************)
DefaultPositionTimeLimit == 60      \* seconds

None == << >>
Some(v) == << v >>

VARIABLES
    \* RiskEngine
    limits, peak_equity, starting_equity_today, realized_pnl_today,
    positions, last_reset_date, is_killed, kill_reason,
    utc_today,            \* the date datetime.utcnow().date() returns
    risk_call,            \* the last RiskEngine call: its name and its result
    \* KillSwitch
    is_active, events, affected_bots,
    ks_call,              \* the last KillSwitch call: its name, result, error
    \* OrderService / order routes
    orders,               \* the rows of the orders table, by creation order
    published,            \* the events the last order operation emitted
    order_call,           \* the last order operation: its name, order, error
    \* GridStrategy (one instance)
    grid_params,          \* None before construction, then Some(params)
    grid_is_running, grid_levels, grid_is_active, grid_current_price,
    grid_call,            \* the last GridStrategy call: its name and result
    \* DCAStrategy (one instance)
    dca_params,           \* None before construction, then Some(params)
    dca_is_running, dca_safety_orders, dca_base_order_filled,
    dca_entry_price, dca_current_price,
    dca_average_entry, dca_total_quantity, dca_total_invested,
    dca_call,             \* the last DCAStrategy call: name, result, error
    \* ScalpingStrategy (one instance)
    scalp_params,         \* None before construction, then Some(params)
    scalp_current_price, scalp_orderbook, scalp_position_size,
    scalp_entry_price, scalp_unrealized_pnl, scalp_price_history,
    scalp_position_open_time, scalp_entry_side,
    scalp_now,            \* the seconds datetime.utcnow() has reached
    scalp_call,           \* the last ScalpingStrategy call: name and result
    \* StrategyEngine
    eng_started,          \* start() has connected the event bus
    eng_strategies,       \* the strategies dict, in insertion order
    eng_invoked,          \* the callbacks the last market event invoked
    eng_signals,          \* the bot.signal events it published
    eng_errors,           \* the strategy errors it logged
    eng_call,             \* the last StrategyEngine call
    \* EventBus (one instance, of either class)
    bus_kind,             \* None before construction, then the class
    bus_handlers,         \* the handlers dict, in insertion order
    bus_subscribed,       \* the patterns subscribed at the broker
    bus_listening,        \* the listener task runs
    bus_queue,            \* the messages the broker has sent to the pubsub
    bus_published,        \* the number of events published so far
    bus_current,          \* the message the listener is handling
    bus_tasks,            \* the handler invocations not yet run
    bus_log,              \* the handler invocations, in the order they ran
    bus_call,             \* the last step of the bus: name and outcome
    \* Bot row
    bot_row,              \* None before create, then the row of the bot
    bot_clock,            \* datetime.utcnow()
    bot_call,             \* the last operation on the row and its error
    \* Exchange adapter
    adp_kind,             \* None before construction, then the class
    adp_is_connected,     \* is_connected
    adp_session,          \* self.session: None or the index of a session
    adp_sessions,         \* every session created: "open" or "closed"
    adp_call,             \* the last adapter call and its error
    \* Bots in front of the RiskEngine
    trade_validated,      \* per bot: the symbol validated and not yet reported
    \* Pattern matchers
    match_call,           \* the last pattern and type matched, with the results
    \* Position rows
    position_row,         \* None or the Position row
    position_call,        \* the last operation on the row
    \* Strategy registry during a dispatch
    reg_engine,           \* "created", "running" or "stopped"
    reg_entries,          \* the entries of StrategyEngine.strategies, in order
    reg_dispatch          \* None or the _on_market_event call in progress

riskVars == << limits, peak_equity, starting_equity_today, realized_pnl_today,
               positions, last_reset_date, is_killed, kill_reason,
               utc_today, risk_call >>
killVars == << is_active, events, affected_bots, ks_call >>
orderVars == << orders, published, order_call >>
gridVars == << grid_params, grid_is_running, grid_levels, grid_is_active,
               grid_current_price, grid_call >>
dcaVars == << dca_params, dca_is_running, dca_safety_orders,
              dca_base_order_filled, dca_entry_price, dca_current_price,
              dca_average_entry, dca_total_quantity, dca_total_invested,
              dca_call >>
scalpVars == << scalp_params, scalp_current_price, scalp_orderbook,
                scalp_position_size, scalp_entry_price, scalp_unrealized_pnl,
                scalp_price_history, scalp_position_open_time,
                scalp_entry_side, scalp_now, scalp_call >>
engineVars == << eng_started, eng_strategies, eng_invoked, eng_signals,
                 eng_errors, eng_call >>
busVars == << bus_kind, bus_handlers, bus_subscribed, bus_listening,
              bus_queue, bus_published, bus_current, bus_tasks, bus_log,
              bus_call >>
botVars == << bot_row, bot_clock, bot_call >>
adapterVars == << adp_kind, adp_is_connected, adp_session, adp_sessions,
                  adp_call >>
tradeVars == << trade_validated >>
matchVars == << match_call >>
positionVars == << position_row, position_call >>
registryVars == << reg_engine, reg_entries, reg_dispatch >>
vars == << riskVars, killVars, orderVars, gridVars, dcaVars, scalpVars,
           engineVars, busVars, botVars, adapterVars, tradeVars, matchVars, positionVars, registryVars >>

\* What an operation of one component leaves alone: the other components.
notRisk == << killVars, orderVars, gridVars, dcaVars, scalpVars,
             engineVars, busVars, botVars, adapterVars,
             tradeVars,
             matchVars, positionVars, registryVars >>
notKill == << riskVars, orderVars, gridVars, dcaVars, scalpVars,
             engineVars, busVars, botVars, adapterVars,
             tradeVars,
             matchVars, positionVars, registryVars >>
notOrders == << riskVars, killVars, gridVars, dcaVars, scalpVars,
             engineVars, busVars, botVars, adapterVars,
             tradeVars,
             matchVars, positionVars, registryVars >>
notGrid == << riskVars, killVars, orderVars, dcaVars, scalpVars,
             engineVars, busVars, botVars, adapterVars,
             tradeVars,
             matchVars, positionVars, registryVars >>
notDca == << riskVars, killVars, orderVars, gridVars, scalpVars,
             engineVars, busVars, botVars, adapterVars,
             tradeVars,
             matchVars, positionVars, registryVars >>
notScalp == << riskVars, killVars, orderVars, gridVars, dcaVars,
             engineVars, busVars, botVars, adapterVars,
             tradeVars,
             matchVars, positionVars, registryVars >>
notEngine == << riskVars, killVars, orderVars, gridVars, dcaVars, scalpVars,
               busVars, botVars, adapterVars, tradeVars,
             matchVars, positionVars, registryVars >>
notBus == << riskVars, killVars, orderVars, gridVars, dcaVars, scalpVars,
            engineVars, botVars, adapterVars, tradeVars,
             matchVars, positionVars, registryVars >>
notBot == << riskVars, killVars, orderVars, gridVars, dcaVars, scalpVars,
            engineVars, busVars, adapterVars, tradeVars,
             matchVars, positionVars, registryVars >>
notAdapter == << riskVars, killVars, orderVars, gridVars, dcaVars, scalpVars,
                engineVars, busVars, botVars, tradeVars,
             matchVars, positionVars, registryVars >>
notTrade == << killVars, orderVars, gridVars, dcaVars, scalpVars,
              engineVars, busVars, botVars, adapterVars,
             matchVars, positionVars, registryVars >>
notMatch == << riskVars, killVars, orderVars, gridVars, dcaVars, scalpVars,
              engineVars, busVars, botVars, adapterVars, tradeVars,
              positionVars, registryVars >>
notPosition == << riskVars, killVars, orderVars, gridVars, dcaVars, scalpVars,
                 engineVars, busVars, botVars, adapterVars, tradeVars,
                 matchVars, registryVars >>
notRegistry == << riskVars, killVars, orderVars, gridVars, dcaVars, scalpVars,
                 engineVars, busVars, botVars, adapterVars, tradeVars,
                 matchVars, positionVars >>

(***************************************************************************)
(* Inputs the model draws from                                             *)
(***************************************************************************)
Symbols == {"BTCUSDT", "ETHUSDT"}
Sides == {"buy", "sell"}
PositionSides == {"long", "short"}
Quantities == {1, 3}
Prices == {2, 5}
Leverages == {1, 5}
Equities == {0, 90, 100}

RiskLimits(dd, ps, dl, lev, op) ==
    [max_drawdown_percent |-> dd, max_position_size_percent |-> ps,
     daily_loss_limit_percent |-> dl, max_leverage |-> lev,
     max_open_positions |-> op]

DefaultLimits ==
    RiskLimits(DefaultMaxDrawdownPercent, DefaultMaxPositionSizePercent,
               DefaultDailyLossLimitPercent, DefaultMaxLeverage,
               DefaultMaxOpenPositions)

\* The limits update_limits is called with: the defaults, and tighter ones
\* under which the leverage, open-position and daily-loss checks can fail.
LimitsInputs ==
    { DefaultLimits,
      RiskLimits(DefaultMaxDrawdownPercent, DefaultMaxPositionSizePercent,
                 DefaultDailyLossLimitPercent, 3, 1),
      RiskLimits(DefaultMaxDrawdownPercent, DefaultMaxPositionSizePercent,
                 0, 3, 1) }

(***************************************************************************)
(* Exact comparison of  num / den * 100  with  lim  (den # 0)              *)
(***************************************************************************)
PctGT(num, den, lim) ==
    IF den > 0 THEN num * 100 > lim * den ELSE num * 100 < lim * den

PctGE(num, den, lim) ==
    IF den > 0 THEN num * 100 >= lim * den ELSE num * 100 =< lim * den

(***************************************************************************)
(* Exact fractions for the strategies' prices: <<n, d>> with d > 0, in     *)
(* lowest terms, stands for the float n / d.                               *)
(***************************************************************************)
RECURSIVE GCD(_, _)
GCD(a, b) == IF b = 0 THEN a ELSE GCD(b, a % b)

Abs(n) == IF n < 0 THEN 0 - n ELSE n

Rat(n, d) ==
    LET g == GCD(Abs(n), d) IN << n \div g, d \div g >>

RatLE(a, b) == a[1] * b[2] =< b[1] * a[2]

RatLT(a, b) == a[1] * b[2] < b[1] * a[2]

RatAdd(a, b) == Rat(a[1] * b[2] + b[1] * a[2], a[2] * b[2])

RatSub(a, b) == Rat(a[1] * b[2] - b[1] * a[2], a[2] * b[2])

RatMul(a, b) == Rat(a[1] * b[1], a[2] * b[2])

\* a / b for b # 0
RatDiv(a, b) ==
    IF b[1] > 0 THEN Rat(a[1] * b[2], a[2] * b[1])
    ELSE Rat(0 - a[1] * b[2], 0 - a[2] * b[1])

RatNeg(a) == << 0 - a[1], a[2] >>

\* the float of a whole number, and of a number of hundredths
Whole(n) == << n, 1 >>
Hundredths(n) == Rat(n, 100)

RECURSIVE Pow(_, _)
Pow(b, n) == IF n = 0 THEN 1 ELSE b * Pow(b, n - 1)

(***************************************************************************)
(* RiskEngine                                                              *)
(***************************************************************************)
Result(valid, reason) == [valid |-> valid, reason |-> reason]

RiskCall(op, ret) == [op |-> op, ret |-> ret]

NoResult == Result(TRUE, "None")

\* Mutant of position_size_exceeded: the limit itself already rejects (>=).
position_size_exceeded_inclusive(quantity, price, portfolio_value) ==
    IF portfolio_value # 0
    THEN PctGE(quantity * price, portfolio_value,
               limits.max_position_size_percent)
    ELSE 0 >= limits.max_position_size_percent

\* Mutant of position_size_exceeded: an order on an empty portfolio counts
\* as larger than any limit.
position_size_exceeded_unfunded(quantity, price, portfolio_value) ==
    IF portfolio_value # 0
    THEN PctGT(quantity * price, portfolio_value,
               limits.max_position_size_percent)
    ELSE quantity * price > 0

\* core.py 107-110: position_size_percent > max_position_size_percent
position_size_exceeded(quantity, price, portfolio_value) ==
    IF portfolio_value # 0
    THEN PctGT(quantity * price, portfolio_value,
               limits.max_position_size_percent)
    ELSE 0 > limits.max_position_size_percent

\* core.py 117-118
open_positions_exceeded(symbol) ==
    /\ Cardinality(DOMAIN positions) >= limits.max_open_positions
    /\ symbol \notin DOMAIN positions

check_daily_loss_exceeded ==
    IF starting_equity_today = 0
    THEN FALSE
    ELSE LET current_equity == starting_equity_today + realized_pnl_today
         IN  PctGE(starting_equity_today - current_equity,
                   starting_equity_today, limits.daily_loss_limit_percent)

check_max_drawdown_exceeded(current_equity) ==
    IF peak_equity = 0
    THEN FALSE
    ELSE PctGE(peak_equity - current_equity, peak_equity,
               limits.max_drawdown_percent)

\* Mutant of validate_order: the kill-switch check is left out.
validate_order_ignoring_kill(symbol, side, quantity, price, leverage, portfolio_value) ==
    IF leverage > limits.max_leverage
    THEN Result(FALSE, "Leverage")
    ELSE IF position_size_exceeded(quantity, price, portfolio_value)
    THEN Result(FALSE, "Position size")
    ELSE IF open_positions_exceeded(symbol)
    THEN Result(FALSE, "Max open positions")
    ELSE IF check_daily_loss_exceeded
    THEN Result(FALSE, "Daily loss limit")
    ELSE IF check_max_drawdown_exceeded(portfolio_value)
    THEN Result(FALSE, "Max drawdown")
    ELSE Result(TRUE, "None")

\* Mutant of validate_order: the position-size check runs before the
\* leverage check.
validate_order_size_first(symbol, side, quantity, price, leverage, portfolio_value) ==
    IF is_killed
    THEN Result(FALSE, "Kill switch active")
    ELSE IF position_size_exceeded(quantity, price, portfolio_value)
    THEN Result(FALSE, "Position size")
    ELSE IF leverage > limits.max_leverage
    THEN Result(FALSE, "Leverage")
    ELSE IF open_positions_exceeded(symbol)
    THEN Result(FALSE, "Max open positions")
    ELSE IF check_daily_loss_exceeded
    THEN Result(FALSE, "Daily loss limit")
    ELSE IF check_max_drawdown_exceeded(portfolio_value)
    THEN Result(FALSE, "Max drawdown")
    ELSE Result(TRUE, "None")

\* core.py 93-138
validate_order(symbol, side, quantity, price, leverage, portfolio_value) ==
    IF is_killed
    THEN Result(FALSE, "Kill switch active")
    ELSE IF leverage > limits.max_leverage
    THEN Result(FALSE, "Leverage")
    ELSE IF position_size_exceeded(quantity, price, portfolio_value)
    THEN Result(FALSE, "Position size")
    ELSE IF open_positions_exceeded(symbol)
    THEN Result(FALSE, "Max open positions")
    ELSE IF check_daily_loss_exceeded
    THEN Result(FALSE, "Daily loss limit")
    ELSE IF check_max_drawdown_exceeded(portfolio_value)
    THEN Result(FALSE, "Max drawdown")
    ELSE Result(TRUE, "None")

ValidateOrder(symbol, side, quantity, price, leverage, portfolio_value) ==
    /\ risk_call' = RiskCall("validate_order",
                             validate_order(symbol, side, quantity, price,
                                            leverage, portfolio_value))
    /\ UNCHANGED << limits, peak_equity, starting_equity_today,
                    realized_pnl_today, positions, last_reset_date,
                    is_killed, kill_reason, utc_today >>
    /\ UNCHANGED notRisk

UpdateLimits(new_limits) ==
    /\ UNCHANGED notRisk
    /\ limits' = new_limits
    /\ risk_call' = RiskCall("update_limits", NoResult)
    /\ UNCHANGED << peak_equity, starting_equity_today, realized_pnl_today,
                    positions, last_reset_date, is_killed, kill_reason,
                    utc_today >>

\* core.py 155-172: the PositionRisk stored for a non-zero size
PositionRisk(symbol, side, size, entry_price, current_price, leverage) ==
    LET unrealized_pnl == IF side = "long"
                          THEN (current_price - entry_price) * size
                          ELSE (entry_price - current_price) * size
    IN  [symbol |-> symbol, side |-> side, size |-> size,
         entry_price |-> entry_price, current_price |-> current_price,
         leverage |-> leverage, unrealized_pnl |-> unrealized_pnl,
         unrealized_pnl_percent |-> << unrealized_pnl * 100,
                                       entry_price * size >>,
         liquidation_distance_percent |-> 0]

positions_after(symbol, side, size, entry_price, current_price, leverage) ==
    IF size = 0
    THEN [s \in DOMAIN positions \ {symbol} |-> positions[s]]
    ELSE [s \in DOMAIN positions \cup {symbol} |->
            IF s = symbol
            THEN PositionRisk(symbol, side, size, entry_price,
                              current_price, leverage)
            ELSE positions[s]]

UpdatePosition(symbol, side, size, entry_price, current_price, leverage) ==
    /\ UNCHANGED notRisk
    /\ positions' = positions_after(symbol, side, size, entry_price,
                                    current_price, leverage)
    /\ risk_call' = RiskCall("update_position", NoResult)
    /\ UNCHANGED << limits, peak_equity, starting_equity_today,
                    realized_pnl_today, last_reset_date, is_killed,
                    kill_reason, utc_today >>

RECURSIVE SumOver(_, _)
SumOver(S, f) ==
    IF S = {} THEN 0
    ELSE LET s == CHOOSE x \in S : TRUE
         IN  f[s] + SumOver(S \ {s}, f)

\* Mutant of peak_equity_after: the peak is overwritten by every equity.
peak_equity_overwritten(total_equity) == total_equity

\* core.py 178-179
peak_equity_after(total_equity) ==
    IF total_equity > peak_equity THEN total_equity ELSE peak_equity

\* core.py 181-211: the PortfolioRisk snapshot, computed with the new peak
PortfolioRisk(total_equity, peak) ==
    [total_equity |-> total_equity,
     total_exposure |->
        SumOver(DOMAIN positions,
                [s \in DOMAIN positions |->
                    positions[s].size * positions[s].current_price
                        * positions[s].leverage]),
     total_unrealized_pnl |->
        SumOver(DOMAIN positions,
                [s \in DOMAIN positions |-> positions[s].unrealized_pnl]),
     total_realized_pnl_today |-> realized_pnl_today,
     current_drawdown_percent |->
        IF peak > 0 THEN << (peak - total_equity) * 100, peak >>
                    ELSE << 0, 1 >>,
     max_drawdown_percent |-> limits.max_drawdown_percent,
     open_positions |-> Cardinality(DOMAIN positions),
     daily_pnl_percent |->
        IF starting_equity_today > 0
        THEN << (total_equity - starting_equity_today) * 100,
                starting_equity_today >>
        ELSE << 0, 1 >>]

CalculatePortfolioRisk(total_equity) ==
    /\ UNCHANGED notRisk
    /\ peak_equity' = peak_equity_after(total_equity)
    /\ risk_call' = RiskCall("calculate_portfolio_risk",
                             PortfolioRisk(total_equity,
                                           peak_equity_after(total_equity)))
    /\ UNCHANGED << limits, starting_equity_today, realized_pnl_today,
                    positions, last_reset_date, is_killed, kill_reason,
                    utc_today >>

TriggerKillSwitch(reason) ==
    /\ UNCHANGED notRisk
    /\ is_killed' = TRUE
    /\ kill_reason' = Some(reason)
    /\ risk_call' = RiskCall("trigger_kill_switch", NoResult)
    /\ UNCHANGED << limits, peak_equity, starting_equity_today,
                    realized_pnl_today, positions, last_reset_date,
                    utc_today >>

ResetKillSwitch ==
    /\ UNCHANGED notRisk
    /\ is_killed' = FALSE
    /\ kill_reason' = None
    /\ risk_call' = RiskCall("reset_kill_switch", NoResult)
    /\ UNCHANGED << limits, peak_equity, starting_equity_today,
                    realized_pnl_today, positions, last_reset_date,
                    utc_today >>

ResetDailyTracking(current_equity) ==
    /\ UNCHANGED notRisk
    /\ starting_equity_today' = current_equity
    /\ realized_pnl_today' = 0
    /\ last_reset_date' = Some(utc_today)
    /\ risk_call' = RiskCall("reset_daily_tracking", NoResult)
    /\ UNCHANGED << limits, peak_equity, positions, is_killed, kill_reason,
                    utc_today >>

\* Midnight UTC passes: datetime.utcnow().date() moves to the next day.
NextDay ==
    /\ UNCHANGED notRisk
    /\ utc_today < MaxDay
    /\ utc_today' = utc_today + 1
    /\ UNCHANGED << limits, peak_equity, starting_equity_today,
                    realized_pnl_today, positions, last_reset_date,
                    is_killed, kill_reason, risk_call >>

InitRisk ==
    /\ limits = DefaultLimits
    /\ peak_equity = 0
    /\ starting_equity_today = 0
    /\ realized_pnl_today = 0
    /\ positions = [s \in {} |-> 0]
    /\ last_reset_date = None
    /\ is_killed = FALSE
    /\ kill_reason = None
    /\ utc_today = 1
    /\ risk_call = RiskCall("init", NoResult)

NextRisk ==
    \/ \E symbol \in Symbols, side \in Sides, quantity \in Quantities,
          price \in Prices, leverage \in Leverages,
          portfolio_value \in Equities :
            ValidateOrder(symbol, side, quantity, price, leverage,
                          portfolio_value)
    \/ \E new_limits \in LimitsInputs : UpdateLimits(new_limits)
    \/ \E symbol \in Symbols, side \in PositionSides, size \in {0, 1} :
            UpdatePosition(symbol, side, size, 100, 110, 1)
    \/ \E total_equity \in Equities : CalculatePortfolioRisk(total_equity)
    \/ TriggerKillSwitch("manual stop")
    \/ ResetKillSwitch
    \/ \E current_equity \in Equities : ResetDailyTracking(current_equity)
    \/ NextDay

(***************************************************************************)
(* KillSwitch                                                              *)
(* A KillSwitchEvent is kept without its timestamp; a reason is the text   *)
(* before the formatted numbers.                                           *)
(***************************************************************************)
KillSwitchTriggers ==
    {"manual", "max_drawdown", "daily_loss", "exchange_error",
     "position_liquidation", "abnormal_volatility", "connection_loss",
     "system_error"}

\* The triggers activate() is called with directly by an operator or monitor.
DirectTriggers == {"manual", "connection_loss"}
BotIdInputs == {None, Some(<< "bot1" >>)}
ConfirmationCodes == {None, Some(""), Some("CONFIRM")}
DrawdownInputs == {5, 10, 11}
MaxDrawdownInputs == {10}
DailyLossInputs == {1, 3}
MaxDailyLossInputs == {3}

KillSwitchEvent(trigger, reason, bots) ==
    [trigger |-> trigger, reason |-> reason, affected_bots |-> bots]

KsCall(op, ret, err) == [op |-> op, ret |-> ret, err |-> err]

\* kill_switch.py 58: bot_ids or []
bots_or_empty(bot_ids) ==
    IF bot_ids = None \/ bot_ids[1] = << >> THEN << >> ELSE bot_ids[1]

\* kill_switch.py 57-74: the state activate() leaves, returning the event
activate(op, trigger, reason, bot_ids) ==
    LET event == KillSwitchEvent(trigger, reason, bots_or_empty(bot_ids))
    IN  /\ is_active' = TRUE
        /\ affected_bots' = bots_or_empty(bot_ids)
        /\ events' = Append(events, event)
        /\ ks_call' = KsCall(op, Some(event), "None")

Activate(trigger, reason, bot_ids) ==
    /\ UNCHANGED notKill
    /\ Len(events) < MaxEvents
    /\ activate("activate", trigger, reason, bot_ids)

\* Mutant of confirmation_missing: only None counts as missing.
confirmation_is_none(confirmation_code) == confirmation_code = None

\* kill_switch.py 82: not confirmation_code (None and "" are falsy)
confirmation_missing(confirmation_code) ==
    confirmation_code = None \/ confirmation_code[1] = ""

Deactivate(confirmation_code) ==
    /\ UNCHANGED notKill
    /\ IF confirmation_missing(confirmation_code)
       THEN /\ ks_call' = KsCall("deactivate", None, "ValueError")
            /\ UNCHANGED << is_active, events, affected_bots >>
       ELSE /\ is_active' = FALSE
            /\ affected_bots' = << >>
            /\ ks_call' = KsCall("deactivate", None, "None")
            /\ UNCHANGED events

\* Mutant of breached_trigger: a drawdown equal to the limit is no breach.
breached_trigger_strict(current_drawdown, max_drawdown, daily_loss, max_daily_loss, exchange_healthy) ==
    IF current_drawdown > max_drawdown THEN Some("max_drawdown")
    ELSE IF daily_loss >= max_daily_loss THEN Some("daily_loss")
    ELSE IF ~exchange_healthy THEN Some("exchange_error")
    ELSE None

\* kill_switch.py 107-125: the trigger check_conditions activates with,
\* None when no condition is breached
breached_trigger(current_drawdown, max_drawdown, daily_loss, max_daily_loss, exchange_healthy) ==
    IF current_drawdown >= max_drawdown THEN Some("max_drawdown")
    ELSE IF daily_loss >= max_daily_loss THEN Some("daily_loss")
    ELSE IF ~exchange_healthy THEN Some("exchange_error")
    ELSE None

breach_reason(trigger) ==
    CASE trigger = "max_drawdown" -> "Drawdown exceeded limit"
      [] trigger = "daily_loss" -> "Daily loss exceeded limit"
      [] OTHER -> "Exchange connection unhealthy"

CheckConditions(current_drawdown, max_drawdown, daily_loss, max_daily_loss, exchange_healthy) ==
    LET t == breached_trigger(current_drawdown, max_drawdown, daily_loss,
                              max_daily_loss, exchange_healthy)
    IN  /\ UNCHANGED notKill
        /\ IF is_active \/ t = None
           THEN /\ ks_call' = KsCall("check_conditions", None, "None")
                /\ UNCHANGED << is_active, events, affected_bots >>
           ELSE /\ Len(events) < MaxEvents
                /\ activate("check_conditions", t[1], breach_reason(t[1]),
                            None)

GetStatus ==
    /\ UNCHANGED notKill
    /\ ks_call' = KsCall("get_status",
                         Some([is_active |-> is_active,
                               affected_bots |-> affected_bots,
                               last_event |->
                                  IF events # << >>
                                  THEN Some(events[Len(events)].reason)
                                  ELSE None,
                               total_activations |-> Len(events)]),
                         "None")
    /\ UNCHANGED << is_active, events, affected_bots >>

InitKill ==
    /\ is_active = FALSE
    /\ events = << >>
    /\ affected_bots = << >>
    /\ ks_call = KsCall("init", None, "None")

NextKill ==
    \/ \E trigger \in DirectTriggers, bot_ids \in BotIdInputs :
            Activate(trigger, "operator request", bot_ids)
    \/ \E confirmation_code \in ConfirmationCodes :
            Deactivate(confirmation_code)
    \/ \E current_drawdown \in DrawdownInputs,
          max_drawdown \in MaxDrawdownInputs,
          daily_loss \in DailyLossInputs,
          max_daily_loss \in MaxDailyLossInputs,
          exchange_healthy \in BOOLEAN :
            CheckConditions(current_drawdown, max_drawdown, daily_loss,
                            max_daily_loss, exchange_healthy)
    \/ GetStatus


(***************************************************************************)
(* Orders: the orders table, OrderService and the cancel route             *)
(* An order row keeps the columns the operations read or write.  A         *)
(* timestamp is None or the value utcnow() returned, which the model does  *)
(* not distinguish further.  An order's id is its index in the table.      *)
(***************************************************************************)
OrderStatus ==
    {"pending", "submitted", "open", "partial",
     "filled", "cancelled", "rejected", "expired"}

Users == {"user1", "user2"}
\* The users whose rows the table holds; user2 owns no order.
Owners == {"user1"}
BotFilters == {None, Some("bot1"), Some("bot2")}
SymbolFilters == {None, Some("btcusdt"), Some("ETHUSDT")}
Now == "utcnow"

\* What the exchange reports with a status: nothing, a partial fill, or a
\* fill larger than the order (filled_quantity, average_price, fee, id).
FillReports ==
    { [filled_quantity |-> None, average_price |-> None, fee |-> None,
       exchange_order_id |-> None],
      [filled_quantity |-> Some(1), average_price |-> Some(100),
       fee |-> Some(1), exchange_order_id |-> Some("X1")],
      [filled_quantity |-> Some(3), average_price |-> Some(100),
       fee |-> Some(1), exchange_order_id |-> Some("X1")] }

\* str.upper() on the symbols the model uses
Upper(symbol) ==
    CASE symbol = "btcusdt" -> "BTCUSDT"
      [] symbol = "ethusdt" -> "ETHUSDT"
      [] OTHER -> symbol

OrderEvent(type, order_id, status) ==
    [type |-> type, order_id |-> order_id, status |-> status]

OrderCall(op, err, ret) == [op |-> op, err |-> err, ret |-> ret]

\* models/order.py 55-113: a row as the columns' defaults make it
Order(user_id, bot_id, symbol, quantity) ==
    [user_id |-> user_id, bot_id |-> bot_id, symbol |-> symbol,
     status |-> "pending", quantity |-> quantity, filled_quantity |-> 0,
     average_price |-> None, fee |-> 0, exchange_order_id |-> None,
     filled_at |-> None, cancelled_at |-> None]

\* models/order.py 127-129
is_open(order) == order.status \in {"open", "partial", "submitted"}

\* A writer of the orders table inserts a row (the execution engine that
\* turns a signal into an order; OrderService.create_order cannot, see below).
InsertOrder(user_id, quantity) ==
    /\ UNCHANGED notOrders
    /\ Len(orders) < MaxOrders
    /\ orders' = Append(orders, Order(user_id, "bot1", "BTCUSDT", quantity))
    /\ published' = << >>
    /\ order_call' = OrderCall("insert", "None", Len(orders) + 1)

\* order_service.py 79-90: Order(..., order_type=order_type, ...) names a
\* keyword that is no attribute of Order (the column is `type`), which the
\* declarative constructor refuses with TypeError before db.add is reached.
CreateOrder(user_id, quantity) ==
    /\ UNCHANGED notOrders
    /\ order_call' = OrderCall("create_order", "TypeError", 0)
    /\ published' = << >>
    /\ UNCHANGED orders

\* order_service.py 109-124
CancelOrder(i) ==
    /\ UNCHANGED notOrders
    /\ IF ~is_open(orders[i])
       THEN /\ order_call' = OrderCall("cancel_order", "ValueError", i)
            /\ published' = << >>
            /\ UNCHANGED orders
       ELSE /\ orders' = [orders EXCEPT ![i].status = "cancelled",
                                        ![i].cancelled_at = Some(Now)]
            /\ published' =
                  << OrderEvent("order.cancelled", i, "cancelled") >>
            /\ order_call' = OrderCall("cancel_order", "None", i)

\* api/v1/orders.py 57-73
CancelOrderRoute(order_id, current_user) ==
    /\ UNCHANGED notOrders
    /\ published' = << >>
    /\ IF order_id > Len(orders) \/ orders[order_id].user_id # current_user
       THEN /\ order_call' =
                  OrderCall("cancel_order_route", "HTTP 404", order_id)
            /\ UNCHANGED orders
       ELSE IF ~is_open(orders[order_id])
       THEN /\ order_call' =
                  OrderCall("cancel_order_route", "HTTP 400", order_id)
            /\ UNCHANGED orders
       ELSE /\ orders' = [orders EXCEPT ![order_id].status = "cancelled"]
            /\ order_call' =
                  OrderCall("cancel_order_route", "None", order_id)

\* order_service.py 133-141: the rows cancel_all_orders selects
cancel_all_selected(user_id, bot_id, symbol) ==
    { i \in 1..Len(orders) :
        /\ orders[i].user_id = user_id
        /\ orders[i].status \in {"open", "partial"}
        /\ (bot_id # None => orders[i].bot_id = bot_id[1])
        /\ (symbol # None => orders[i].symbol = Upper(symbol[1])) }

CancelAllOrders(user_id, bot_id, symbol) ==
    LET selected == cancel_all_selected(user_id, bot_id, symbol)
    IN  /\ UNCHANGED notOrders
        /\ orders' = [i \in 1..Len(orders) |->
                        IF i \in selected
                        THEN [orders[i] EXCEPT !.status = "cancelled",
                                               !.cancelled_at = Some(Now)]
                        ELSE orders[i]]
        /\ published' = << >>
        /\ order_call' = OrderCall("cancel_all_orders", "None",
                                   Cardinality(selected))

\* order_service.py 165-177: the row update_order_status leaves
order_after_update(order, status, report) ==
    [order EXCEPT
        !.status = status,
        !.filled_quantity = IF report.filled_quantity # None
                            THEN report.filled_quantity[1] ELSE @,
        !.average_price = IF report.average_price # None
                          THEN report.average_price ELSE @,
        !.fee = IF report.fee # None THEN report.fee[1] ELSE @,
        !.exchange_order_id = IF report.exchange_order_id # None
                              THEN report.exchange_order_id ELSE @,
        !.filled_at = IF status = "filled" THEN Some(Now) ELSE @]

\* order_service.py 182-185: the event emitted after every update
update_event(i, status) == OrderEvent("order.filled", i, status)

UpdateOrderStatus(i, status, report) ==
    /\ UNCHANGED notOrders
    /\ orders' = [orders EXCEPT ![i] = order_after_update(@, status, report)]
    /\ published' = << update_event(i, status) >>
    /\ order_call' = OrderCall("update_order_status", "None", i)

InitOrders ==
    /\ orders = << >>
    /\ published = << >>
    /\ order_call = OrderCall("init", "None", 0)

NextOrders ==
    \/ \E user_id \in Owners, quantity \in {2} : InsertOrder(user_id, quantity)
    \/ \E user_id \in Users, quantity \in {2} : CreateOrder(user_id, quantity)
    \/ \E i \in 1..Len(orders) : CancelOrder(i)
    \/ \E order_id \in 1..MaxOrders, current_user \in Users :
            CancelOrderRoute(order_id, current_user)
    \/ \E user_id \in Users, bot_id \in BotFilters, symbol \in SymbolFilters :
            CancelAllOrders(user_id, bot_id, symbol)
    \/ \E i \in 1..Len(orders), status \in OrderStatus, report \in FillReports :
            UpdateOrderStatus(i, status, report)

(***************************************************************************)
(* GridStrategy  (strategy-engine/engine/strategies/grid.py)               *)
(*                                                                         *)
(* One strategy instance.  Its parameters are the params dict given to the *)
(* constructor; a tick is the value of tick.get("price", 0), where 0       *)
(* stands for a tick without a price.  A level's price is a fraction.      *)
(***************************************************************************)
StrategySymbol == "BTCUSDT"

GridParams(grid_type, upper_price, lower_price, grid_count, order_size, trigger_price) ==
    [grid_type |-> grid_type, upper_price |-> upper_price,
     lower_price |-> lower_price, grid_count |-> grid_count,
     order_size |-> order_size, trigger_price |-> trigger_price]

\* The parameter sets the model constructs a grid from: eleven levels
\* 100, 101, .., 110; three levels 100, 101.5, 103 behind a trigger at 101;
\* a geometric grid 25, 50, 100.
GridParamsInputs ==
    { GridParams(None, 110, 100, 10, 1, None),
      GridParams(Some("arithmetic"), 103, 100, 2, 1, Some(101)),
      GridParams(Some("geometric"), 100, 25, 2, 1, None) }

\* tick.get("price", 0)
GridTickPrices == {0, 50, 99, 100, 101, 102, 111}

\* grid.py 34: params.get("grid_type", "arithmetic")
grid_type(params) ==
    IF params.grid_type = None THEN "arithmetic" ELSE params.grid_type[1]

\* grid.py 12-17
GridLevel(price, is_buy) ==
    [price |-> price, is_buy |-> is_buy, is_filled |-> FALSE]

\* grid.py 55-57: lower_price + i * ((upper_price - lower_price) / grid_count)
arithmetic_price(params, i) ==
    Rat(params.lower_price * params.grid_count
            + i * (params.upper_price - params.lower_price),
        params.grid_count)

\* grid.py 60: (upper_price / lower_price) ** (1 / grid_count), for the
\* parameters whose ratio is a whole number
geometric_ratio(params) ==
    CHOOSE r \in 1..params.upper_price :
        params.lower_price * Pow(r, params.grid_count) = params.upper_price

\* grid.py 62: lower_price * ratio ** i
geometric_price(params, i) ==
    Rat(params.lower_price * Pow(geometric_ratio(params), i), 1)

\* grid.py 50-63
build_grid(params) ==
    [k \in 1..(params.grid_count + 1) |->
        GridLevel(IF grid_type(params) = "arithmetic"
                  THEN arithmetic_price(params, k - 1)
                  ELSE geometric_price(params, k - 1),
                  TRUE)]

\* base.py 21-33, as grid.py 96-103 and 110-117 fill it
GridSignal(type, level) ==
    [type |-> type, symbol |-> StrategySymbol, price |-> level.price,
     quantity |-> grid_params[1].order_size,
     reason |-> << IF type = "buy" THEN "Grid buy at" ELSE "Grid sell at",
                   level.price >>]

GridCall(op, signal) == [op |-> op, signal |-> signal]

\* grid.py 30-44
GridNew(params) ==
    /\ UNCHANGED notGrid
    /\ grid_params = None
    /\ grid_params' = Some(params)
    /\ grid_is_running' = FALSE
    /\ grid_levels' = << >>
    /\ grid_is_active' = FALSE
    /\ grid_current_price' = 0
    /\ grid_call' = GridCall("__init__", None)

\* grid.py 46-48, base.py 87-89
GridInitialize ==
    /\ UNCHANGED notGrid
    /\ grid_params # None
    /\ grid_is_running' = TRUE
    /\ grid_levels' = build_grid(grid_params[1])
    /\ grid_call' = GridCall("initialize", None)
    /\ UNCHANGED << grid_params, grid_is_active, grid_current_price >>

\* base.py 91-93
GridCleanup ==
    /\ UNCHANGED notGrid
    /\ grid_params # None
    /\ grid_is_running' = FALSE
    /\ grid_call' = GridCall("cleanup", None)
    /\ UNCHANGED << grid_params, grid_levels, grid_is_active,
                    grid_current_price >>

\* Mutant of grid_dormant: the trigger is checked on every tick.
grid_dormant_below_trigger(params, active, price) ==
    /\ params.trigger_price # None
    /\ params.trigger_price[1] # 0
    /\ price < params.trigger_price[1]

\* grid.py 74-78: a trigger is set, the grid is not active yet and the
\* price has not reached the trigger
grid_dormant(params, active, price) ==
    /\ params.trigger_price # None
    /\ params.trigger_price[1] # 0
    /\ ~active
    /\ price < params.trigger_price[1]

\* grid.py 83
out_of_range(params, price) ==
    price > params.upper_price \/ price < params.lower_price

\* grid.py 88-91
level_buys(level, price) ==
    ~level.is_filled /\ level.is_buy /\ RatLE(<< price, 1 >>, level.price)

\* grid.py 88-89, 105
level_sells(level, price) ==
    ~level.is_filled /\ ~level.is_buy /\ RatLE(level.price, << price, 1 >>)

\* grid.py 87-117: the first level of the list the loop returns at, 0 when
\* the loop runs to its end
firing_level(levels, price) ==
    LET firing == { k \in 1..Len(levels) :
                      level_buys(levels[k], price)
                        \/ level_sells(levels[k], price) }
    IN  IF firing = {} THEN 0
        ELSE CHOOSE k \in firing : \A j \in firing : k =< j

\* Mutant of level_after_fire: a BUY turns the intent and leaves the level
\* unfilled.
level_after_fire_unfilled(level) ==
    IF level.is_buy
    THEN [level EXCEPT !.is_buy = FALSE]
    ELSE [level EXCEPT !.is_filled = FALSE, !.is_buy = TRUE]

\* grid.py 93-94 and 107-108
level_after_fire(level) ==
    IF level.is_buy
    THEN [level EXCEPT !.is_filled = TRUE, !.is_buy = FALSE]
    ELSE [level EXCEPT !.is_filled = FALSE, !.is_buy = TRUE]

\* A tick that drops the level it fires (a variant on_tick must differ from).
levels_dropping(levels, k) ==
    [j \in 1..(Len(levels) - 1) |-> IF j < k THEN levels[j] ELSE levels[j + 1]]

\* grid.py 87-117: the list after the level at index k has fired
levels_after_tick(levels, k) ==
    [levels EXCEPT ![k] = level_after_fire(@)]

\* grid.py 65-119
GridOnTick(price) ==
    /\ UNCHANGED notGrid
    /\ grid_params # None
    /\ UNCHANGED << grid_params, grid_is_running >>
    /\ IF price = 0
       THEN /\ grid_call' = GridCall("on_tick", None)
            /\ UNCHANGED << grid_levels, grid_is_active, grid_current_price >>
       ELSE LET params == grid_params[1]
                dormant == grid_dormant(params, grid_is_active, price)
                k == firing_level(grid_levels, price)
            IN  /\ grid_current_price' = price
                /\ grid_is_active' = ~dormant
                /\ IF dormant \/ out_of_range(params, price) \/ k = 0
                   THEN /\ grid_call' = GridCall("on_tick", None)
                        /\ UNCHANGED grid_levels
                   ELSE /\ grid_levels' = levels_after_tick(grid_levels, k)
                        /\ grid_call' =
                              GridCall("on_tick",
                                  Some(GridSignal(
                                      IF grid_levels[k].is_buy
                                      THEN "buy" ELSE "sell",
                                      grid_levels[k])))

InitGrid ==
    /\ grid_params = None
    /\ grid_is_running = FALSE
    /\ grid_levels = << >>
    /\ grid_is_active = FALSE
    /\ grid_current_price = 0
    /\ grid_call = GridCall("none", None)

NextGrid ==
    \/ \E params \in GridParamsInputs : GridNew(params)
    \/ GridInitialize
    \/ GridCleanup
    \/ \E price \in GridTickPrices : GridOnTick(price)

(***************************************************************************)
(* DCAStrategy  (strategy-engine/engine/strategies/dca.py)                 *)
(*                                                                         *)
(* One strategy instance.  Every number is a fraction; a tick is the value *)
(* of tick.get("price", 0), an order the values of order.get("quantity",   *)
(* 0) and order.get("price", 0).                                           *)
(***************************************************************************)
DcaParams(base_order_size, safety_order_size, max_safety_orders, price_deviation, step_scale, volume_scale, take_profit_pct, stop_loss_pct) ==
    [base_order_size |-> base_order_size,
     safety_order_size |-> safety_order_size,
     max_safety_orders |-> max_safety_orders,
     price_deviation |-> price_deviation, step_scale |-> step_scale,
     volume_scale |-> volume_scale, take_profit_pct |-> take_profit_pct,
     stop_loss_pct |-> stop_loss_pct]

\* The parameter sets the model constructs a strategy from: base 100,
\* safety 100, three safety orders, deviation 1 %, scales 1, take profit
\* 2 %, no stop loss; and base 100, safety 100, two safety orders, deviation
\* 1 %, step scale 2, volume scale 2, take profit 1.5 %, stop loss 1 %.
DcaParamsInputs ==
    { DcaParams(Whole(100), Whole(100), 3, Whole(1), Whole(1), Whole(1),
                Whole(2), None),
      DcaParams(Whole(100), Whole(100), 2, Whole(1), Whole(2), Whole(2),
                Hundredths(150), Some(Whole(1))) }

\* tick.get("price", 0)
DcaTickPrices ==
    { Whole(0), Whole(100), Whole(99), Whole(98), Hundredths(9790),
      Hundredths(9996), Hundredths(10098), Hundredths(10102) }

\* order.get("quantity", 0) and order.get("price", 0) of the fills
DcaFillQuantities == { Whole(0), Whole(100) }
DcaFillPrices == { Whole(100), Whole(99), Whole(98) }

\* dca.py 11-18
SafetyOrder(order_num, deviation_percent, size) ==
    [order_num |-> order_num, deviation_percent |-> deviation_percent,
     size |-> size, trigger_price |-> Whole(0), is_filled |-> FALSE]

\* dca.py 59-69: current_deviation when the loop appends order i + 1
RECURSIVE safety_deviation(_, _)
safety_deviation(params, i) ==
    IF i = 0 THEN params.price_deviation
    ELSE RatAdd(safety_deviation(params, i - 1),
                RatMul(params.price_deviation, params.step_scale))

\* dca.py 60-69: current_size when the loop appends order i + 1
RECURSIVE safety_size(_, _)
safety_size(params, i) ==
    IF i = 0 THEN params.safety_order_size
    ELSE RatMul(safety_size(params, i - 1), params.volume_scale)

\* dca.py 55-69
build_safety_orders(params) ==
    [k \in 1..params.max_safety_orders |->
        SafetyOrder(k, safety_deviation(params, k - 1),
                    safety_size(params, k - 1))]

\* Mutant of update_safety_triggers: the triggers lie above the entry.
update_safety_triggers_above(safety_orders, entry_price) ==
    [k \in 1..Len(safety_orders) |->
        [safety_orders[k] EXCEPT !.trigger_price =
            RatMul(entry_price,
                   RatAdd(Whole(1),
                          RatDiv(safety_orders[k].deviation_percent,
                                 Whole(100))))]]

\* dca.py 141-144
update_safety_triggers(safety_orders, entry_price) ==
    [k \in 1..Len(safety_orders) |->
        [safety_orders[k] EXCEPT !.trigger_price =
            RatMul(entry_price,
                   RatSub(Whole(1),
                          RatDiv(safety_orders[k].deviation_percent,
                                 Whole(100))))]]

\* dca.py 96: ((price - average_entry) / average_entry) * 100
pnl_percent(price, average_entry) ==
    RatMul(RatDiv(RatSub(price, average_entry), average_entry), Whole(100))

\* A take profit that needs the percentage above the threshold (a variant
\* on_tick must differ from).
take_profit_strict(pnl, take_profit_pct) == RatLT(take_profit_pct, pnl)

\* dca.py 98
take_profit_reached(pnl, take_profit_pct) == RatLE(take_profit_pct, pnl)

\* dca.py 109
stop_loss_reached(pnl, stop_loss_pct) ==
    /\ stop_loss_pct # None
    /\ stop_loss_pct[1][1] # 0
    /\ RatLE(pnl, RatNeg(stop_loss_pct[1]))

\* Mutant of firing_safety_order: filled orders are not skipped.
firing_safety_order_refire(safety_orders, price) ==
    LET firing == { k \in 1..Len(safety_orders) :
                      RatLE(price, safety_orders[k].trigger_price) }
    IN  IF firing = {} THEN 0
        ELSE CHOOSE k \in firing : \A j \in firing : k =< j

\* dca.py 120-124: the first safety order the loop returns at, 0 when the
\* loop runs to its end
firing_safety_order(safety_orders, price) ==
    LET firing == { k \in 1..Len(safety_orders) :
                      /\ ~safety_orders[k].is_filled
                      /\ RatLE(price, safety_orders[k].trigger_price) }
    IN  IF firing = {} THEN 0
        ELSE CHOOSE k \in firing : \A j \in firing : k =< j

\* base.py 21-33, as dca.py fills it; indicators holds pnl_percent or the
\* safety order's number
DcaSignal(type, price, quantity, reason, indicators) ==
    [type |-> type, symbol |-> StrategySymbol, price |-> price,
     quantity |-> quantity, reason |-> reason, indicators |-> indicators]

DcaCall(op, signal, err) == [op |-> op, signal |-> signal, err |-> err]

\* dca.py 94-139: what a tick after the base order returns; the safety
\* order it marks is the one the signal names
tick_signal(price, params, safety_orders, average_entry, total_quantity) ==
    LET checked == RatLT(Whole(0), total_quantity)
        pnl == pnl_percent(price, average_entry)
        k == firing_safety_order(safety_orders, price)
    IN  IF checked /\ take_profit_reached(pnl, params.take_profit_pct)
        THEN Some(DcaSignal("sell", price, total_quantity,
                            "Take profit", pnl))
        ELSE IF checked /\ stop_loss_reached(pnl, params.stop_loss_pct)
        THEN Some(DcaSignal("sell", price, total_quantity,
                            "Stop loss", pnl))
        ELSE IF k # 0
        THEN Some(DcaSignal("buy", price, safety_orders[k].size,
                            "Safety order", k))
        ELSE None

\* dca.py 31-49
DcaNew(params) ==
    /\ UNCHANGED notDca
    /\ dca_params = None
    /\ dca_params' = Some(params)
    /\ dca_is_running' = FALSE
    /\ dca_safety_orders' = << >>
    /\ dca_base_order_filled' = FALSE
    /\ dca_entry_price' = Whole(0)
    /\ dca_current_price' = Whole(0)
    /\ dca_average_entry' = Whole(0)
    /\ dca_total_quantity' = Whole(0)
    /\ dca_total_invested' = Whole(0)
    /\ dca_call' = DcaCall("__init__", None, "None")

\* dca.py 51-53, base.py 87-89; called once, by register_strategy
\* (core.py 74)
DcaInitialize ==
    /\ UNCHANGED notDca
    /\ dca_params # None
    /\ ~dca_is_running
    /\ dca_is_running' = TRUE
    /\ dca_safety_orders' = build_safety_orders(dca_params[1])
    /\ dca_call' = DcaCall("initialize", None, "None")
    /\ UNCHANGED << dca_params, dca_base_order_filled, dca_entry_price,
                    dca_current_price, dca_average_entry,
                    dca_total_quantity, dca_total_invested >>

\* dca.py 71-139
DcaOnTick(price) ==
    /\ UNCHANGED notDca
    /\ dca_params # None
    /\ UNCHANGED << dca_params, dca_is_running, dca_average_entry,
                    dca_total_quantity, dca_total_invested >>
    /\ IF price[1] = 0
       THEN /\ dca_call' = DcaCall("on_tick", None, "None")
            /\ UNCHANGED << dca_safety_orders, dca_base_order_filled,
                            dca_entry_price, dca_current_price >>
       ELSE IF ~dca_base_order_filled
       THEN /\ dca_current_price' = price
            /\ dca_base_order_filled' = TRUE
            /\ dca_entry_price' = price
            /\ dca_safety_orders' =
                  update_safety_triggers(dca_safety_orders, price)
            /\ dca_call' =
                  DcaCall("on_tick",
                          Some(DcaSignal("buy", price,
                                         dca_params[1].base_order_size,
                                         "DCA base order", "base")),
                          "None")
       ELSE LET signal == tick_signal(price, dca_params[1],
                                      dca_safety_orders, dca_average_entry,
                                      dca_total_quantity)
            IN  /\ dca_current_price' = price
                /\ dca_safety_orders' =
                      IF signal # None /\ signal[1].reason = "Safety order"
                      THEN [dca_safety_orders EXCEPT
                                ![signal[1].indicators].is_filled = TRUE]
                      ELSE dca_safety_orders
                /\ dca_call' = DcaCall("on_tick", signal, "None")
                /\ UNCHANGED << dca_base_order_filled, dca_entry_price >>

\* An average cut to a whole number (a variant on_order_filled must differ
\* from).
average_entry_truncated(total_invested, total_quantity) ==
    Whole(RatDiv(total_invested, total_quantity)[1]
            \div RatDiv(total_invested, total_quantity)[2])

\* dca.py 153
average_entry_after(total_invested, total_quantity) ==
    RatDiv(total_invested, total_quantity)

\* dca.py 146-153
DcaOnOrderFilled(quantity, price) ==
    /\ UNCHANGED notDca
    /\ dca_params # None
    /\ RatLT(dca_total_quantity, Whole(MaxFills * 100))
    /\ dca_total_quantity' = RatAdd(dca_total_quantity, quantity)
    /\ dca_total_invested' =
          RatAdd(dca_total_invested, RatMul(quantity, price))
    /\ IF dca_total_quantity'[1] = 0
       THEN /\ dca_call' = DcaCall("on_order_filled", None,
                                   "ZeroDivisionError")
            /\ UNCHANGED dca_average_entry
       ELSE /\ dca_average_entry' =
                  average_entry_after(dca_total_invested', dca_total_quantity')
            /\ dca_call' = DcaCall("on_order_filled", None, "None")
    /\ UNCHANGED << dca_params, dca_is_running, dca_safety_orders,
                    dca_base_order_filled, dca_entry_price,
                    dca_current_price >>

InitDca ==
    /\ dca_params = None
    /\ dca_is_running = FALSE
    /\ dca_safety_orders = << >>
    /\ dca_base_order_filled = FALSE
    /\ dca_entry_price = Whole(0)
    /\ dca_current_price = Whole(0)
    /\ dca_average_entry = Whole(0)
    /\ dca_total_quantity = Whole(0)
    /\ dca_total_invested = Whole(0)
    /\ dca_call = DcaCall("none", None, "None")

NextDca ==
    \/ \E params \in DcaParamsInputs : DcaNew(params)
    \/ DcaInitialize
    \/ \E price \in DcaTickPrices : DcaOnTick(price)
    \/ \E quantity \in DcaFillQuantities, price \in DcaFillPrices :
            DcaOnOrderFilled(quantity, price)

(***************************************************************************)
(* ScalpingStrategy  (strategy-engine/engine/strategies/scalping.py)       *)
(*                                                                         *)
(* One strategy instance.  Prices are fractions; a tick is the values of   *)
(* tick.get("price", 0), tick.get("bid", 0) and tick.get("ask", 0).  The   *)
(* clock datetime.utcnow() is scalp_now, in seconds, advancing by          *)
(* ClockStep.  price_history is written and never read; the model keeps    *)
(* its last PriceHistoryKept entries.                                      *)
(***************************************************************************)
ClockStep == 30

\* scalping.py 33
tick_size == Hundredths(1)

ScalpParams(spread_threshold, take_profit_ticks, stop_loss_ticks, imbalance_threshold, position_time_limit, use_market_orders) ==
    [spread_threshold |-> spread_threshold,
     take_profit_ticks |-> take_profit_ticks,
     stop_loss_ticks |-> stop_loss_ticks,
     imbalance_threshold |-> imbalance_threshold,
     position_time_limit |-> position_time_limit,
     use_market_orders |-> use_market_orders]

\* The parameter sets the model constructs a strategy from: spread threshold
\* 0.1 %, take profit and stop loss 5 ticks, imbalance threshold 2; the time
\* limit left to its default with market orders, or 30 seconds with limit
\* orders; and one with imbalance threshold 1.
ScalpParamsInputs ==
    { ScalpParams(Hundredths(10), Whole(5), Whole(5), Whole(2), None, TRUE),
      ScalpParams(Hundredths(10), Whole(5), Whole(5), Whole(2), Some(30),
                  FALSE),
      ScalpParams(Hundredths(10), Whole(5), Whole(5), Whole(1), None, TRUE) }

ScalpTick(price, bid, ask) == [price |-> price, bid |-> bid, ask |-> ask]

\* Ticks: one without bid and ask, one with a narrow spread at 100.00, one
\* with a wide spread at 100.10.
ScalpTicks ==
    { ScalpTick(Whole(100), Whole(0), Whole(0)),
      ScalpTick(Whole(100), Hundredths(9999), Hundredths(10001)),
      ScalpTick(Hundredths(10010), Whole(100), Hundredths(10020)) }

\* Orderbooks: the lists of [price, volume] levels under "bids" and "asks".
Orderbook(bids, asks) == [bids |-> bids, asks |-> asks]

Orderbooks ==
    { Orderbook(<< >>, << << Whole(101), Whole(1) >> >>),
      Orderbook(<< << Whole(99), Whole(1) >> >>,
                << << Whole(101), Whole(0) >> >>),
      Orderbook(<< << Whole(99), Whole(2) >>, << Whole(98), Whole(1) >> >>,
                << << Whole(101), Whole(1) >> >>),
      Orderbook(<< << Whole(99), Whole(1) >> >>,
                << << Whole(101), Whole(2) >>, << Whole(102), Whole(1) >> >>),
      Orderbook(<< << Whole(99), Whole(1) >> >>,
                << << Whole(101), Whole(1) >> >>) }

\* The position dicts on_position_update is given.
Position(quantity, entry_price, unrealized_pnl) ==
    [quantity |-> quantity, entry_price |-> entry_price,
     unrealized_pnl |-> unrealized_pnl]

PositionInputs ==
    { Position(Whole(0), Whole(0), Whole(0)),
      Position(Whole(1), Whole(100), Whole(0)),
      Position(Whole(0 - 1), Whole(100), Whole(0)) }

\* scalping.py 29: params.get("position_time_limit", 60)
position_time_limit(params) ==
    IF params.position_time_limit = None THEN DefaultPositionTimeLimit
    ELSE params.position_time_limit[1]

\* base.py 21-33, as scalping.py fills it
ScalpSignal(type, price, reason, stop_loss, take_profit) ==
    [type |-> type, symbol |-> StrategySymbol, price |-> price,
     reason |-> reason, stop_loss |-> stop_loss, take_profit |-> take_profit]

ScalpCall(op, signal) == [op |-> op, signal |-> signal]

\* base.py 125-127
has_position(position_size) == position_size[1] # 0

\* scalping.py 50: ((ask - bid) / bid) * 100
spread(bid, ask) == RatMul(RatDiv(RatSub(ask, bid), bid), Whole(100))

\* A time limit that needs the hold time above the limit (a variant on_tick
\* must differ from).
timed_out_strict(now, position_open_time, time_limit) ==
    now - position_open_time > time_limit

\* scalping.py 54-55
timed_out(now, position_open_time, time_limit) ==
    now - position_open_time >= time_limit

\* scalping.py 57
close_type(entry_side) ==
    IF entry_side = Some("long") THEN "close_long" ELSE "close_short"

\* scalping.py 135-162
check_exit(price, params, entry_side, entry_price) ==
    LET pnl_ticks == IF entry_side = Some("long")
                     THEN RatDiv(RatSub(price, entry_price), tick_size)
                     ELSE RatDiv(RatSub(entry_price, price), tick_size)
    IN  IF RatLE(params.take_profit_ticks, pnl_ticks)
        THEN Some(ScalpSignal(close_type(entry_side), price, "Take profit",
                              None, None))
        ELSE IF RatLE(pnl_ticks, RatNeg(params.stop_loss_ticks))
        THEN Some(ScalpSignal(close_type(entry_side), price, "Stop loss",
                              None, None))
        ELSE None

\* scalping.py 101: self.orderbook.get("imbalance", 1.0)
stored_imbalance(orderbook) ==
    IF orderbook = None THEN Whole(1) ELSE orderbook[1].imbalance

\* Mutant of entry_side_for: the selling pressure is looked at first.
entry_side_short_first(imbalance, params) ==
    IF RatLE(imbalance, RatDiv(Whole(1), params.imbalance_threshold))
    THEN Some("short")
    ELSE IF RatLE(params.imbalance_threshold, imbalance) THEN Some("long")
    ELSE None

\* scalping.py 104 and 119: the side _check_entry enters, None for neither
entry_side_for(imbalance, params) ==
    IF RatLE(params.imbalance_threshold, imbalance) THEN Some("long")
    ELSE IF RatLE(imbalance, RatDiv(Whole(1), params.imbalance_threshold))
    THEN Some("short")
    ELSE None

\* scalping.py 99-133
check_entry(bid, ask, params, orderbook) ==
    LET side == entry_side_for(stored_imbalance(orderbook), params)
        stop_distance == RatMul(params.stop_loss_ticks, tick_size)
        profit_distance == RatMul(params.take_profit_ticks, tick_size)
    IN  IF side = Some("long")
        THEN Some(ScalpSignal("buy",
                      IF params.use_market_orders THEN ask ELSE bid,
                      "Orderbook imbalance",
                      Some(RatSub(bid, stop_distance)),
                      Some(RatAdd(ask, profit_distance))))
        ELSE IF side = Some("short")
        THEN Some(ScalpSignal("sell",
                      IF params.use_market_orders THEN bid ELSE ask,
                      "Orderbook imbalance",
                      Some(RatAdd(ask, stop_distance)),
                      Some(RatSub(bid, profit_distance))))
        ELSE None

\* collections.deque(maxlen=...).append
deque_append(history, price) ==
    IF Len(history) < PriceHistoryKept THEN Append(history, price)
    ELSE Append(Tail(history), price)

\* scalping.py 21-36, base.py 72-85
ScalpNew(params) ==
    /\ UNCHANGED notScalp
    /\ scalp_params = None
    /\ scalp_params' = Some(params)
    /\ scalp_current_price' = Whole(0)
    /\ scalp_orderbook' = None
    /\ scalp_position_size' = Whole(0)
    /\ scalp_entry_price' = Whole(0)
    /\ scalp_unrealized_pnl' = Whole(0)
    /\ scalp_price_history' = << >>
    /\ scalp_position_open_time' = None
    /\ scalp_entry_side' = None
    /\ scalp_call' = ScalpCall("__init__", None)
    /\ UNCHANGED scalp_now

\* scalping.py 38-71
ScalpOnTick(tick) ==
    /\ UNCHANGED notScalp
    /\ scalp_params # None
    /\ UNCHANGED << scalp_params, scalp_orderbook, scalp_position_size,
                    scalp_entry_price, scalp_unrealized_pnl, scalp_now >>
    /\ IF tick.price[1] = 0 \/ tick.bid[1] = 0 \/ tick.ask[1] = 0
       THEN /\ scalp_call' = ScalpCall("on_tick", None)
            /\ UNCHANGED << scalp_current_price, scalp_price_history,
                            scalp_position_open_time, scalp_entry_side >>
       ELSE /\ scalp_current_price' = tick.price
            /\ scalp_price_history' =
                  deque_append(scalp_price_history, tick.price)
            /\ IF /\ has_position(scalp_position_size)
                  /\ scalp_position_open_time # None
                  /\ timed_out(scalp_now, scalp_position_open_time[1],
                               position_time_limit(scalp_params[1]))
               THEN /\ scalp_call' =
                          ScalpCall("on_tick",
                              Some(ScalpSignal(close_type(scalp_entry_side),
                                               tick.price,
                                               "Position time limit reached",
                                               None, None)))
                    /\ UNCHANGED << scalp_position_open_time,
                                    scalp_entry_side >>
               ELSE IF has_position(scalp_position_size)
               THEN /\ scalp_call' =
                          ScalpCall("on_tick",
                              check_exit(tick.price, scalp_params[1],
                                         scalp_entry_side, scalp_entry_price))
                    /\ UNCHANGED << scalp_position_open_time,
                                    scalp_entry_side >>
               ELSE IF RatLE(spread(tick.bid, tick.ask),
                             scalp_params[1].spread_threshold)
               THEN LET signal == check_entry(tick.bid, tick.ask,
                                              scalp_params[1],
                                              scalp_orderbook)
                    IN  /\ scalp_call' = ScalpCall("on_tick", signal)
                        /\ IF signal # None
                           THEN /\ scalp_entry_side' =
                                      entry_side_for(
                                          stored_imbalance(scalp_orderbook),
                                          scalp_params[1])
                                /\ scalp_position_open_time' = Some(scalp_now)
                           ELSE UNCHANGED << scalp_position_open_time,
                                             scalp_entry_side >>
               ELSE /\ scalp_call' = ScalpCall("on_tick", None)
                    /\ UNCHANGED << scalp_position_open_time,
                                    scalp_entry_side >>

\* sum(level[1] for level in levels[:10])
RECURSIVE volume_sum(_, _)
volume_sum(levels, n) ==
    IF n = 0 THEN Whole(0)
    ELSE RatAdd(volume_sum(levels, n - 1), levels[n][2])

\* scalping.py 82-83
top_volume(levels) ==
    volume_sum(levels, IF Len(levels) < 10 THEN Len(levels) ELSE 10)

\* scalping.py 73-97
ScalpOnOrderbook(orderbook) ==
    /\ UNCHANGED notScalp
    /\ scalp_params # None
    /\ scalp_call' = ScalpCall("on_orderbook", None)
    /\ scalp_orderbook' =
          IF \/ orderbook.bids = << >>
             \/ orderbook.asks = << >>
             \/ top_volume(orderbook.asks)[1] = 0
          THEN scalp_orderbook
          ELSE Some([bid_volume |-> top_volume(orderbook.bids),
                     ask_volume |-> top_volume(orderbook.asks),
                     imbalance |-> RatDiv(top_volume(orderbook.bids),
                                          top_volume(orderbook.asks))])
    /\ UNCHANGED << scalp_params, scalp_current_price, scalp_position_size,
                    scalp_entry_price, scalp_unrealized_pnl,
                    scalp_price_history, scalp_position_open_time,
                    scalp_entry_side, scalp_now >>

\* base.py 119-123
ScalpOnPositionUpdate(position) ==
    /\ UNCHANGED notScalp
    /\ scalp_params # None
    /\ scalp_position_size' = position.quantity
    /\ scalp_entry_price' = position.entry_price
    /\ scalp_unrealized_pnl' = position.unrealized_pnl
    /\ scalp_call' = ScalpCall("on_position_update", None)
    /\ UNCHANGED << scalp_params, scalp_current_price, scalp_orderbook,
                    scalp_price_history, scalp_position_open_time,
                    scalp_entry_side, scalp_now >>

\* Time passes: datetime.utcnow() returns a later time.
ScalpClock ==
    /\ UNCHANGED notScalp
    /\ scalp_now < MaxClockSteps * ClockStep
    /\ scalp_now' = scalp_now + ClockStep
    /\ UNCHANGED << scalp_params, scalp_current_price, scalp_orderbook,
                    scalp_position_size, scalp_entry_price,
                    scalp_unrealized_pnl, scalp_price_history,
                    scalp_position_open_time, scalp_entry_side, scalp_call >>

InitScalp ==
    /\ scalp_params = None
    /\ scalp_current_price = Whole(0)
    /\ scalp_orderbook = None
    /\ scalp_position_size = Whole(0)
    /\ scalp_entry_price = Whole(0)
    /\ scalp_unrealized_pnl = Whole(0)
    /\ scalp_price_history = << >>
    /\ scalp_position_open_time = None
    /\ scalp_entry_side = None
    /\ scalp_now = 0
    /\ scalp_call = ScalpCall("none", None)

NextScalp ==
    \/ \E params \in ScalpParamsInputs : ScalpNew(params)
    \/ \E tick \in ScalpTicks : ScalpOnTick(tick)
    \/ \E orderbook \in Orderbooks : ScalpOnOrderbook(orderbook)
    \/ \E position \in PositionInputs : ScalpOnPositionUpdate(position)
    \/ ScalpClock

(***************************************************************************)
(* StrategyEngine  (strategy-engine/engine/core.py)                        *)
(*                                                                         *)
(* The registered strategies are known by their symbol; what a callback    *)
(* does is an input of the event's action: it returns None, returns a      *)
(* signal or raises.  A market event is the dict the event bus hands to    *)
(* _on_market_event: its "type" and the "symbol" of its data.              *)
(***************************************************************************)
BotIds == {"bot1", "bot2"}

\* event.get("type", ""): the three dispatched types, another market type,
\* and a missing type
MarketEventTypes ==
    {"market.tick", "market.kline", "market.orderbook", "market.trade", ""}

\* data.get("symbol"): missing, empty, or a symbol
EventSymbols == {None, Some(""), Some("BTCUSDT"), Some("ETHUSDT")}

MarketEvent(type, symbol) == [type |-> type, symbol |-> symbol]

BotEventTypes == {"bot.started", "bot.stopped"}

\* what a strategy callback does when awaited
CallbackOutcomes == {"none", "signal", "raise"}

\* base.py 72-89 and 129-131: a strategy as register_strategy leaves it;
\* params_valid is what its validate_params() returns
Strategy(bot_id, symbol, params_valid) ==
    [bot_id |-> bot_id, symbol |-> symbol, params_valid |-> params_valid,
     is_running |-> TRUE]

EngineCall(op, arg) == [op |-> op, arg |-> arg]

\* the position of a key in the dict, 0 when it is absent
key_index(strategies, bot_id) ==
    IF \E k \in 1..Len(strategies) : strategies[k].bot_id = bot_id
    THEN CHOOSE k \in 1..Len(strategies) : strategies[k].bot_id = bot_id
    ELSE 0

\* core.py 73: self.strategies[bot_id] = strategy keeps the place of a key
\* the dict already holds and appends a new key
dict_set(strategies, bot_id, strategy) ==
    IF key_index(strategies, bot_id) = 0 THEN Append(strategies, strategy)
    ELSE [strategies EXCEPT ![key_index(strategies, bot_id)] = strategy]

\* core.py 81: del self.strategies[bot_id]
dict_del(strategies, bot_id) ==
    LET i == key_index(strategies, bot_id)
    IN  [k \in 1..(Len(strategies) - 1) |->
            IF k < i THEN strategies[k] ELSE strategies[k + 1]]

\* core.py 34-51
EngineStart ==
    /\ UNCHANGED notEngine
    /\ ~eng_started
    /\ eng_started' = TRUE
    /\ eng_call' = EngineCall("start", None)
    /\ UNCHANGED << eng_strategies, eng_invoked, eng_signals, eng_errors >>

\* core.py 71-75
RegisterStrategy(bot_id, symbol, params_valid) ==
    /\ UNCHANGED notEngine
    /\ eng_strategies' =
          dict_set(eng_strategies, bot_id,
                   Strategy(bot_id, symbol, params_valid))
    /\ eng_call' = EngineCall("register_strategy", bot_id)
    /\ UNCHANGED << eng_started, eng_invoked, eng_signals, eng_errors >>

\* core.py 77-82
unregister_strategy(strategies, bot_id) ==
    IF key_index(strategies, bot_id) # 0
    THEN dict_del(strategies, bot_id) ELSE strategies

UnregisterStrategy(bot_id) ==
    /\ UNCHANGED notEngine
    /\ eng_strategies' = unregister_strategy(eng_strategies, bot_id)
    /\ eng_call' = EngineCall("unregister_strategy", bot_id)
    /\ UNCHANGED << eng_started, eng_invoked, eng_signals, eng_errors >>

\* core.py 105-112: the callback an event type is dispatched to
callback_for(event_type) ==
    CASE event_type = "market.tick" -> Some("on_tick")
      [] event_type = "market.kline" -> Some("on_candle")
      [] event_type = "market.orderbook" -> Some("on_orderbook")
      [] OTHER -> None

\* A dispatch to every strategy (a variant _on_market_event must differ
\* from).
symbol_ignored(strategy, symbol) == TRUE

\* core.py 103
symbol_matches(strategy, symbol) == strategy.symbol = symbol

\* core.py 102-112: the places in the dict of the strategies whose callback
\* the event invokes
dispatched(strategies, event) ==
    IF event.symbol = None \/ event.symbol = Some("")
          \/ callback_for(event.type) = None
    THEN {}
    ELSE { k \in 1..Len(strategies) :
              symbol_matches(strategies[k], event.symbol[1]) }

\* the elements of a sequence at the places in S, in order
RECURSIVE SelectAt(_, _, _)
SelectAt(seq, S, k) ==
    IF k > Len(seq) THEN << >>
    ELSE IF k \in S THEN << seq[k] >> \o SelectAt(seq, S, k + 1)
    ELSE SelectAt(seq, S, k + 1)

\* A loop that an exception of a callback ends (a variant
\* _on_market_event must differ from).
reached_until_raise(hit, ids, outcome) ==
    { k \in hit : \A j \in hit : j < k => outcome[ids[j]] # "raise" }

\* core.py 102-118: the places whose callback is awaited, given what the
\* callbacks do: the try/except inside the loop lets it go on after a raise
reached(hit, ids, outcome) == hit

\* core.py 104-118: the exception that leaves _on_market_event; the except
\* clause catches what a callback or _emit_signal raises
handler_error(hit, ids, outcome) == "None"

\* core.py 131-137: the event _emit_signal publishes for a bot's signal
BotSignalEvent(bot_id) == [type |-> "bot.signal", bot_id |-> bot_id]

MarketCall(event, err) ==
    [op |-> "_on_market_event", arg |-> event, err |-> err]

\* core.py 92-118
OnMarketEvent(event, outcome) ==
    LET ids == [k \in 1..Len(eng_strategies) |-> eng_strategies[k].bot_id]
        hit == reached(dispatched(eng_strategies, event), ids, outcome)
    IN  /\ UNCHANGED notEngine
        /\ eng_started
        /\ eng_invoked' =
              [k \in 1..Len(SelectAt(ids, hit, 1)) |->
                  [bot_id |-> SelectAt(ids, hit, 1)[k],
                   callback |-> callback_for(event.type)[1]]]
        /\ eng_signals' =
              SelectAt(ids, { k \in hit : outcome[ids[k]] = "signal" }, 1)
        /\ eng_errors' =
              SelectAt(ids, { k \in hit : outcome[ids[k]] = "raise" }, 1)
        /\ eng_call' = MarketCall(event, handler_error(hit, ids, outcome))
        /\ UNCHANGED << eng_started, eng_strategies >>

\* core.py 120-129
OnBotEvent(event_type, bot_id) ==
    /\ UNCHANGED notEngine
    /\ eng_started
    /\ eng_strategies' =
          IF event_type = "bot.stopped"
          THEN unregister_strategy(eng_strategies, bot_id)
          ELSE eng_strategies
    /\ eng_call' = EngineCall("_on_bot_event", << event_type, bot_id >>)
    /\ UNCHANGED << eng_started, eng_invoked, eng_signals, eng_errors >>

InitEngine ==
    /\ eng_started = FALSE
    /\ eng_strategies = << >>
    /\ eng_invoked = << >>
    /\ eng_signals = << >>
    /\ eng_errors = << >>
    /\ eng_call = EngineCall("none", None)

NextEngine ==
    \/ EngineStart
    \/ \E bot_id \in BotIds, symbol \in Symbols, params_valid \in BOOLEAN :
            RegisterStrategy(bot_id, symbol, params_valid)
    \/ \E bot_id \in BotIds : UnregisterStrategy(bot_id)
    \/ \E type \in MarketEventTypes, symbol \in EventSymbols,
          outcome \in [BotIds -> CallbackOutcomes] :
            OnMarketEvent(MarketEvent(type, symbol), outcome)
    \/ \E event_type \in BotEventTypes, bot_id \in BotIds :
            OnBotEvent(event_type, bot_id)

(***************************************************************************)
(* EventBus: backend/app/core/events.py and                                *)
(* strategy-engine/engine/event_bus.py                                     *)
(*                                                                         *)
(* One bus instance of either class, with the broker's side of its pubsub  *)
(* connection.  Event types and patterns are sequences of tokens, so that  *)
(* split, startswith and endswith are computed as the code computes them.  *)
(* The broker sends a published message once for every subscription of    *)
(* the connection that matches its channel.  Subscriptions are made        *)
(* between two messages, and each handler is subscribed once.              *)
(***************************************************************************)
BusKinds == {"backend", "strategy"}

OrderAny == << "order", ".", "*" >>

OrderFilled == << "order", ".", "filled" >>

OrderCreated == << "order", ".", "created" >>

BotAny == << "bot", ".", "*" >>

BusPatterns == {OrderAny, OrderFilled, BotAny}

BusTopics == {OrderFilled, OrderCreated}

BusHandlerIds == {"h1", "h2"}

HandlerOutcomes == {"ok", "raise"}

BusEvent(id, type) == [id |-> id, type |-> type]

has_star(pattern) == \E i \in 1..Len(pattern) : pattern[i] = "*"

RECURSIVE split_star(_)
split_star(pattern) ==
    IF ~has_star(pattern) THEN << pattern >>
    ELSE LET i == CHOOSE k \in 1..Len(pattern) :
                      /\ pattern[k] = "*"
                      /\ \A j \in 1..(k - 1) : pattern[j] # "*"
         IN << SubSeq(pattern, 1, i - 1) >>
                \o split_star(SubSeq(pattern, i + 1, Len(pattern)))

startswith(s, prefix) ==
    Len(prefix) <= Len(s) /\ SubSeq(s, 1, Len(prefix)) = prefix

endswith(s, suffix) ==
    Len(suffix) <= Len(s) /\ SubSeq(s, Len(s) - Len(suffix) + 1, Len(s)) = suffix

\* backend EventBus._matches_pattern
matches_pattern(event_type, pattern) ==
    IF pattern = << "*" >> THEN TRUE
    ELSE IF ~has_star(pattern) THEN event_type = pattern
    ELSE LET parts == split_star(pattern)
         IN IF Len(parts) = 2
            THEN startswith(event_type, parts[1]) /\ endswith(event_type, parts[2])
            ELSE startswith(event_type, parts[1])

\* a matcher that knows no wildcard
matches_exact_only(channel, pattern) ==
    channel = pattern

\* strategy-engine EventBus._matches
matches(channel, pattern) ==
    IF ~has_star(pattern) THEN channel = pattern
    ELSE startswith(channel, split_star(pattern)[1])

\* the channel name a bus gives an event type or a pattern
bus_channel(kind, name) ==
    << IF kind = "backend" THEN "xor:events:" ELSE "xor:" >> \o name

\* the broker's glob match of a psubscribe pattern against a channel
RECURSIVE glob_match(_, _)
glob_match(pattern, channel) ==
    IF pattern = << >> THEN channel = << >>
    ELSE IF Head(pattern) = "*"
    THEN \E k \in 0..Len(channel) :
            glob_match(Tail(pattern), SubSeq(channel, k + 1, Len(channel)))
    ELSE /\ channel # << >>
         /\ Head(channel) = Head(pattern)
         /\ glob_match(Tail(pattern), Tail(channel))

\* subscribe for a plain name, psubscribe for a pattern with a star
broker_matches(kind, pattern, channel) ==
    IF has_star(pattern) THEN glob_match(bus_channel(kind, pattern), channel)
    ELSE bus_channel(kind, pattern) = channel

BusMessage(type, channel, event) ==
    [type |-> type, channel |-> channel, event |-> event]

Orderings(S) ==
    {f \in [1..Cardinality(S) -> S] : \A x \in S : \E i \in DOMAIN f : f[i] = x}

\* the messages the broker sends for one publish: one for the channel
\* subscription, then one for every matching pattern subscription
broker_deliveries(kind, subscribed, event) ==
    LET channel == bus_channel(kind, event.type)
        plain == {p \in subscribed : ~has_star(p) /\ broker_matches(kind, p, channel)}
        globs == {p \in subscribed : has_star(p) /\ broker_matches(kind, p, channel)}
    IN {[i \in 1..Cardinality(plain) |-> BusMessage("message", channel, event)]
           \o [i \in 1..Cardinality(globs) |-> BusMessage("pmessage", channel, event)]
          : order \in Orderings(globs)}

pattern_index(handlers, pattern) ==
    IF \E k \in 1..Len(handlers) : handlers[k].pattern = pattern
    THEN CHOOSE k \in 1..Len(handlers) : handlers[k].pattern = pattern
    ELSE 0

handler_subscribed(handlers, handler) ==
    \E k \in 1..Len(handlers) :
        \E i \in 1..Len(handlers[k].handlers) : handlers[k].handlers[i] = handler

handlers_append(handlers, pattern, handler) ==
    LET k == pattern_index(handlers, pattern)
    IN IF k = 0
       THEN Append(handlers, [pattern |-> pattern, handlers |-> << handler >>])
       ELSE [handlers EXCEPT ![k].handlers = Append(@, handler)]

Invocation(handler, event) ==
    [handler |-> handler, event |-> event.id, type |-> event.type]

pattern_hit(kind, pattern, message) ==
    IF kind = "backend" THEN matches_pattern(message.event.type, pattern)
    ELSE matches(message.channel, bus_channel(kind, pattern))

\* the handlers of every matching pattern, in the order of the dict
RECURSIVE matching_handlers(_, _, _)
matching_handlers(kind, handlers, message) ==
    IF handlers = << >> THEN << >>
    ELSE (IF pattern_hit(kind, Head(handlers).pattern, message)
          THEN [i \in 1..Len(Head(handlers).handlers) |->
                   Invocation(Head(handlers).handlers[i], message.event)]
          ELSE << >>)
         \o matching_handlers(kind, Tail(handlers), message)

BusCall(op, outcome, raised) == [op |-> op, outcome |-> outcome, raised |-> raised]

BusNew(kind) ==
    /\ UNCHANGED notBus
    /\ bus_kind = None
    /\ bus_kind' = Some(kind)
    /\ bus_call' = BusCall("__init__", "None", FALSE)
    /\ UNCHANGED << bus_handlers, bus_subscribed, bus_listening, bus_queue,
                    bus_published, bus_current, bus_tasks, bus_log >>

\* backend subscribe only records the handler; strategy-engine subscribe
\* also subscribes a new pattern at the broker and starts the listener
BusSubscribe(pattern, handler) ==
    /\ UNCHANGED notBus
    /\ bus_kind # None
    /\ bus_current = None
    /\ ~handler_subscribed(bus_handlers, handler)
    /\ bus_handlers' = handlers_append(bus_handlers, pattern, handler)
    /\ IF bus_kind = Some("strategy")
       THEN /\ bus_subscribed' = bus_subscribed \cup {pattern}
            /\ bus_listening' = TRUE
       ELSE UNCHANGED << bus_subscribed, bus_listening >>
    /\ bus_call' = BusCall("subscribe", "None", FALSE)
    /\ UNCHANGED << bus_kind, bus_queue, bus_published, bus_current,
                    bus_tasks, bus_log >>

\* backend start_listening() with no patterns: the handlers' keys
BusStartListening ==
    /\ UNCHANGED notBus
    /\ bus_kind = Some("backend")
    /\ ~bus_listening
    /\ bus_subscribed' = bus_subscribed
                           \cup {bus_handlers[k].pattern : k \in 1..Len(bus_handlers)}
    /\ bus_listening' = TRUE
    /\ bus_call' = BusCall("start_listening", "None", FALSE)
    /\ UNCHANGED << bus_kind, bus_handlers, bus_queue, bus_published,
                    bus_current, bus_tasks, bus_log >>

BusPublish(type) ==
    /\ UNCHANGED notBus
    /\ bus_kind # None
    /\ bus_published < MaxPublished
    /\ bus_published' = bus_published + 1
    /\ \E sent \in broker_deliveries(bus_kind[1], bus_subscribed,
                                     BusEvent(bus_published + 1, type)) :
           bus_queue' = bus_queue \o sent
    /\ bus_call' = BusCall("publish", "None", FALSE)
    /\ UNCHANGED << bus_kind, bus_handlers, bus_subscribed, bus_listening,
                    bus_current, bus_tasks, bus_log >>

BusCurrent(message, found, start) ==
    [message |-> message, dispatched |-> found, start |-> start]

\* _listen takes the next message and _handle_message finds its handlers
BusGetMessage ==
    /\ UNCHANGED notBus
    /\ bus_listening
    /\ bus_current = None
    /\ bus_queue # << >>
    /\ LET found == matching_handlers(bus_kind[1], bus_handlers, Head(bus_queue))
       IN /\ bus_current' = Some(BusCurrent(Head(bus_queue), found, Len(bus_log)))
          /\ bus_tasks' = bus_tasks \o found
    /\ bus_queue' = Tail(bus_queue)
    /\ bus_call' = BusCall("get_message", "None", FALSE)
    /\ UNCHANGED << bus_kind, bus_handlers, bus_subscribed, bus_listening,
                    bus_published, bus_log >>

tasks_abandoned(tasks, i, outcome) ==
    IF outcome = "raise" THEN << >>
    ELSE SubSeq(tasks, 1, i - 1) \o SubSeq(tasks, i + 1, Len(tasks))

\* the invocations still to run after invocation i ended with the outcome
tasks_after(tasks, i, outcome) ==
    SubSeq(tasks, 1, i - 1) \o SubSeq(tasks, i + 1, Len(tasks))

\* the invocations that may run next: any of the gathered ones in the
\* backend, the next one of the loop in the strategy engine
runnable(kind, tasks) ==
    IF kind = "backend" THEN 1..Len(tasks) ELSE 1..(IF tasks = << >> THEN 0 ELSE 1)

\* one handler is called; an Exception it raises is caught around the call
BusRunHandler(i, outcome) ==
    /\ UNCHANGED notBus
    /\ bus_kind # None
    /\ i \in runnable(bus_kind[1], bus_tasks)
    /\ bus_log' = Append(bus_log, bus_tasks[i])
    /\ bus_tasks' = tasks_after(bus_tasks, i, outcome)
    /\ bus_call' = BusCall("handler", outcome,
                           bus_call.raised \/ outcome = "raise")
    /\ UNCHANGED << bus_kind, bus_handlers, bus_subscribed, bus_listening,
                    bus_queue, bus_published, bus_current >>

dispatch_detached(tasks) == TRUE

\* the listener awaits every handler of a message before it goes on
dispatch_done(tasks) == tasks = << >>

\* _handle_message returns to the loop of _listen
BusHandled ==
    /\ UNCHANGED notBus
    /\ bus_current # None
    /\ dispatch_done(bus_tasks)
    /\ bus_current' = None
    /\ bus_call' = BusCall("handled", "None", bus_call.raised)
    /\ UNCHANGED << bus_kind, bus_handlers, bus_subscribed, bus_listening,
                    bus_queue, bus_published, bus_tasks, bus_log >>

InitBus ==
    /\ bus_kind = None
    /\ bus_handlers = << >>
    /\ bus_subscribed = {}
    /\ bus_listening = FALSE
    /\ bus_queue = << >>
    /\ bus_published = 0
    /\ bus_current = None
    /\ bus_tasks = << >>
    /\ bus_log = << >>
    /\ bus_call = BusCall("None", "None", FALSE)

NextBus ==
    \/ \E kind \in BusKinds : BusNew(kind)
    \/ \E pattern \in BusPatterns, handler \in BusHandlerIds :
          BusSubscribe(pattern, handler)
    \/ BusStartListening
    \/ \E type \in BusTopics : BusPublish(type)
    \/ BusGetMessage
    \/ \E i \in 1..(2 * Cardinality(BusHandlerIds)), outcome \in HandlerOutcomes :
          BusRunHandler(i, outcome)
    \/ BusHandled

(***************************************************************************)
(* Bot rows: backend/app/services/bot_service.py, api/v1/bots.py,          *)
(* models/bot.py, db/base.py                                               *)
(*                                                                         *)
(* One row of the bots table.  name and leverage stand for the columns a   *)
(* BotUpdate can set.  An operation comes either from BotService, which is *)
(* handed the row, or from the route, which looks it up first.  The status *)
(* is also written by the runtime that completes a start or a stop.        *)
(***************************************************************************)
BotStatuses ==
    {"created", "starting", "running", "paused", "stopping", "stopped",
     "error", "killed"}

BotNames == {"alpha", "beta"}

BotLeverages == {1, 2}

BotVia == {"service", "route"}

BotActions == {"start", "stop", "pause", "resume"}

\* a BotUpdate: each field is unset (None) or holds a value
BotUpdateInputs ==
    {[name |-> n, leverage |-> l] :
        n \in {None} \cup {Some(x) : x \in BotNames},
        l \in {None} \cup {Some(x) : x \in BotLeverages}}

BotRow(name, leverage) ==
    [name |-> name, leverage |-> leverage, status |-> "created",
     status_message |-> "None", deleted_at |-> None]

BotCall(op, via, err) == [op |-> op, via |-> via, err |-> err]

bot_running_only(row) == row.status = "running"

\* Bot.is_active
bot_is_active(row) == row.status \in {"running", "starting"}

\* SoftDeleteMixin.soft_delete
soft_delete(row, now) == [row EXCEPT !.deleted_at = Some(now)]

\* the row after setattr of every field the update has set
apply_update(row, data) ==
    [row EXCEPT !.name = IF data.name = None THEN @ ELSE data.name[1],
                !.leverage = IF data.leverage = None THEN @ ELSE data.leverage[1]]

\* the route answers 404 for a row that is missing or soft-deleted
bot_not_found(via, row) == via = "route" /\ row.deleted_at # None

BotFail(op, via, err) ==
    /\ bot_call' = BotCall(op, via, err)
    /\ UNCHANGED << bot_row, bot_clock >>

BotCreate(name, leverage) ==
    /\ UNCHANGED notBot
    /\ bot_row = None
    /\ bot_row' = Some(BotRow(name, leverage))
    /\ bot_call' = BotCall("create", "service", "None")
    /\ UNCHANGED bot_clock

BotUpdate(via, data) ==
    /\ UNCHANGED notBot
    /\ bot_row # None
    /\ IF bot_not_found(via, bot_row[1]) THEN BotFail("update", via, "404")
       ELSE IF bot_is_active(bot_row[1])
       THEN BotFail("update", via, IF via = "route" THEN "400" ELSE "ValueError")
       ELSE /\ bot_row' = Some(apply_update(bot_row[1], data))
            /\ bot_call' = BotCall("update", via, "None")
            /\ UNCHANGED bot_clock

BotDelete(via) ==
    /\ UNCHANGED notBot
    /\ bot_row # None
    /\ IF bot_not_found(via, bot_row[1]) THEN BotFail("delete", via, "404")
       ELSE IF bot_is_active(bot_row[1])
       THEN BotFail("delete", via, IF via = "route" THEN "400" ELSE "ValueError")
       ELSE /\ bot_row' = Some(soft_delete(bot_row[1], bot_clock))
            /\ bot_call' = BotCall("delete", via, "None")
            /\ UNCHANGED bot_clock

\* the status an action is refused for
action_refused(action, status) ==
    CASE action = "start" -> status \in {"running", "starting"}
      [] action = "stop" -> status \in {"stopped", "created"}
      [] action = "pause" -> status # "running"
      [] action = "resume" -> status # "paused"

action_status(action) ==
    CASE action = "start" -> "starting"
      [] action = "stop" -> "stopping"
      [] action = "pause" -> "paused"
      [] action = "resume" -> "running"

action_message(action) ==
    CASE action = "start" -> "Starting bot..."
      [] action = "stop" -> "Stopping bot..."
      [] action = "pause" -> "Paused by user"
      [] action = "resume" -> "Resumed"

\* start, stop, pause and resume
BotAction(via, action) ==
    /\ UNCHANGED notBot
    /\ bot_row # None
    /\ IF bot_not_found(via, bot_row[1]) THEN BotFail(action, via, "404")
       ELSE IF action_refused(action, bot_row[1].status)
       THEN BotFail(action, via, IF via = "route" THEN "400" ELSE "ValueError")
       ELSE /\ bot_row' = Some([bot_row[1] EXCEPT
                                   !.status = action_status(action),
                                   !.status_message = action_message(action)])
            /\ bot_call' = BotCall(action, via, "None")
            /\ UNCHANGED bot_clock

\* the runtime reports that a start or a stop has completed, or an error
BotRuntimeStatus(status) ==
    /\ UNCHANGED notBot
    /\ bot_row # None
    /\ \/ status = "running" /\ bot_row[1].status = "starting"
       \/ status = "stopped" /\ bot_row[1].status = "stopping"
       \/ status \in {"error", "killed"} /\ bot_is_active(bot_row[1])
    /\ bot_row' = Some([bot_row[1] EXCEPT !.status = status])
    /\ bot_call' = BotCall("runtime", "None", "None")
    /\ UNCHANGED bot_clock

\* datetime.utcnow() advances
BotClock ==
    /\ UNCHANGED notBot
    /\ bot_clock < MaxBotClock
    /\ bot_clock' = bot_clock + 1
    /\ UNCHANGED << bot_row, bot_call >>

InitBot ==
    /\ bot_row = None
    /\ bot_clock = 0
    /\ bot_call = BotCall("None", "None", "None")

NextBot ==
    \/ \E name \in BotNames, leverage \in BotLeverages : BotCreate(name, leverage)
    \/ \E via \in BotVia, data \in BotUpdateInputs : BotUpdate(via, data)
    \/ \E via \in BotVia : BotDelete(via)
    \/ \E via \in BotVia, action \in BotActions : BotAction(via, action)
    \/ \E status \in {"running", "stopped", "error", "killed"} :
          BotRuntimeStatus(status)
    \/ BotClock

(***************************************************************************)
(* Exchange adapters: exchange-adapter/adapters/binance/__init__.py and    *)
(* bybit/__init__.py                                                       *)
(*                                                                         *)
(* One adapter of either class and every aiohttp.ClientSession it has      *)
(* created: adp_sessions[k] tells whether the k-th session is still open.  *)
(* The Binance adapter never assigns self.ws, which stays None.            *)
(***************************************************************************)
AdapterKinds == {"binance", "bybit"}

AdapterCall(op, err) == [op |-> op, err |-> err]

\* the sessions the adapter has created and not closed
open_sessions(sessions) == {k \in 1..Len(sessions) : sessions[k] = "open"}

AdapterNew(kind) ==
    /\ UNCHANGED notAdapter
    /\ adp_kind = None
    /\ adp_kind' = Some(kind)
    /\ adp_call' = AdapterCall("__init__", "None")
    /\ UNCHANGED << adp_is_connected, adp_session, adp_sessions >>

\* connect creates a session and assigns it, whatever self.session held
AdapterConnect ==
    /\ UNCHANGED notAdapter
    /\ adp_kind # None
    /\ Len(adp_sessions) < MaxSessions
    /\ adp_sessions' = Append(adp_sessions, "open")
    /\ adp_session' = Some(Len(adp_sessions) + 1)
    /\ adp_is_connected' = TRUE
    /\ adp_call' = AdapterCall("connect", "None")
    /\ UNCHANGED adp_kind

\* disconnect closes the session self.session holds and keeps the reference
AdapterDisconnect ==
    /\ UNCHANGED notAdapter
    /\ adp_kind # None
    /\ adp_sessions' = IF adp_session = None THEN adp_sessions
                       ELSE [adp_sessions EXCEPT ![adp_session[1]] = "closed"]
    /\ adp_is_connected' = FALSE
    /\ adp_call' = AdapterCall("disconnect", "None")
    /\ UNCHANGED << adp_kind, adp_session >>

\* _request uses self.session: None has no request, a closed session refuses
AdapterRequest ==
    /\ UNCHANGED notAdapter
    /\ adp_kind # None
    /\ adp_call' = AdapterCall("_request",
                       IF adp_session = None THEN "AttributeError"
                       ELSE IF adp_sessions[adp_session[1]] = "closed"
                       THEN "RuntimeError" ELSE "None")
    /\ UNCHANGED << adp_kind, adp_is_connected, adp_session, adp_sessions >>

\* adapters/base.py 12-16
OrderTypes == {"market", "limit", "stop_market", "stop_limit"}
OrderPrices == {None, Some(100)}
StopPrices == {None, Some(95)}

\* binance 193-203 and bybit 209-218: type_map.get(order_type, default)
exchange_order_type(kind, order_type) ==
    IF kind = "binance"
    THEN CASE order_type = "market" -> "MARKET"
           [] order_type = "limit" -> "LIMIT"
           [] order_type = "stop_market" -> "STOP_MARKET"
           [] order_type = "stop_limit" -> "STOP"
    ELSE CASE order_type = "market" -> "Market"
           [] order_type = "limit" -> "Limit"
           [] OTHER -> "Market"

\* binance 200-212 and bybit 214-222: the parameters of the request; an
\* absent key is None
order_params(kind, order_type, price, stop_price) ==
    [type |-> exchange_order_type(kind, order_type),
     price |->
        IF price # None
             /\ order_type \in (IF kind = "binance"
                                THEN {"limit", "stop_limit"} ELSE {"limit"})
        THEN price ELSE None,
     stop_price |->
        IF kind = "binance" /\ stop_price # None THEN stop_price ELSE None]

\* place_order builds the parameters and passes them to _request
AdapterPlaceOrder(order_type, price, stop_price) ==
    /\ UNCHANGED notAdapter
    /\ adp_kind # None
    /\ adp_call' =
          [op |-> "place_order",
           err |-> IF adp_session = None THEN "AttributeError"
                   ELSE IF adp_sessions[adp_session[1]] = "closed"
                   THEN "RuntimeError" ELSE "None",
           order_type |-> order_type, price |-> price,
           stop_price |-> stop_price,
           params |-> order_params(adp_kind[1], order_type, price, stop_price)]
    /\ UNCHANGED << adp_kind, adp_is_connected, adp_session, adp_sessions >>

InitAdapter ==
    /\ adp_kind = None
    /\ adp_is_connected = FALSE
    /\ adp_session = None
    /\ adp_sessions = << >>
    /\ adp_call = AdapterCall("None", "None")

NextAdapter ==
    \/ \E kind \in AdapterKinds : AdapterNew(kind)
    \/ AdapterConnect
    \/ AdapterDisconnect
    \/ AdapterRequest
    \/ \E order_type \in OrderTypes, price \in OrderPrices,
          stop_price \in StopPrices :
           AdapterPlaceOrder(order_type, price, stop_price)

(***************************************************************************)
(* Bots in front of the RiskEngine: risk-engine/engine/core.py             *)
(*                                                                         *)
(* Two bots of one user share the RiskEngine.  Each validates an order,    *)
(* places it and then reports the position; a bot reports a position of a  *)
(* new symbol only after validate_order has returned valid for that        *)
(* symbol.  The limits are set before the first order and then kept.       *)
(***************************************************************************)
TradeBots == {"bot1", "bot2"}

\* validate_order of a bot; a valid result lets the bot place the order
TradeValidateOrder(bot, symbol, leverage, portfolio_value) ==
    LET ret == validate_order(symbol, "buy", 1, 2, leverage, portfolio_value)
    IN /\ UNCHANGED notTrade
       /\ trade_validated[bot] = None
       /\ risk_call' = RiskCall("validate_order", ret)
       /\ trade_validated' = IF ret.valid
                             THEN [trade_validated EXCEPT ![bot] = Some(symbol)]
                             ELSE trade_validated
       /\ UNCHANGED << limits, peak_equity, starting_equity_today,
                       realized_pnl_today, positions, last_reset_date,
                       is_killed, kill_reason, utc_today >>

\* the order is filled and the bot reports the position
TradeUpdatePosition(bot, leverage) ==
    /\ UNCHANGED notTrade
    /\ trade_validated[bot] # None
    /\ positions' = positions_after(trade_validated[bot][1], "long", 1, 2, 2,
                                    leverage)
    /\ trade_validated' = [trade_validated EXCEPT ![bot] = None]
    /\ risk_call' = RiskCall("update_position", NoResult)
    /\ UNCHANGED << limits, peak_equity, starting_equity_today,
                    realized_pnl_today, last_reset_date, is_killed,
                    kill_reason, utc_today >>

\* a position is closed: update_position with size 0
TradeClosePosition(symbol) ==
    /\ UNCHANGED notTrade
    /\ symbol \in DOMAIN positions
    /\ positions' = positions_after(symbol, "long", 0, 2, 2, 1)
    /\ risk_call' = RiskCall("update_position", NoResult)
    /\ UNCHANGED << limits, peak_equity, starting_equity_today,
                    realized_pnl_today, last_reset_date, is_killed,
                    kill_reason, utc_today, trade_validated >>

\* update_limits before the first order
TradeUpdateLimits(new_limits) ==
    /\ UNCHANGED notTrade
    /\ risk_call.op = "init"
    /\ limits' = new_limits
    /\ risk_call' = RiskCall("update_limits", NoResult)
    /\ UNCHANGED << peak_equity, starting_equity_today, realized_pnl_today,
                    positions, last_reset_date, is_killed, kill_reason,
                    utc_today, trade_validated >>

InitTrade == trade_validated = [bot \in TradeBots |-> None]

NextTrade ==
    \/ \E bot \in TradeBots, symbol \in Symbols, leverage \in Leverages,
          portfolio_value \in Equities :
            TradeValidateOrder(bot, symbol, leverage, portfolio_value)
    \/ \E bot \in TradeBots, leverage \in Leverages :
            TradeUpdatePosition(bot, leverage)
    \/ \E symbol \in Symbols : TradeClosePosition(symbol)
    \/ \E new_limits \in LimitsInputs : TradeUpdateLimits(new_limits)

(***************************************************************************)
(* The pattern matchers of the two buses, applied to one pattern and one   *)
(* event type: backend EventBus._matches_pattern on the event type,        *)
(* strategy-engine EventBus._matches on the channel names, and the         *)
(* broker's own match of the subscription against the channel.             *)
(***************************************************************************)
MatchTokens == {"order", ".", "filled"}

\* every sequence of at most n tokens
RECURSIVE TokenSeqs(_)
TokenSeqs(n) ==
    IF n = 0 THEN {<< >>}
    ELSE TokenSeqs(n - 1)
           \cup {Append(s, t) : s \in {q \in TokenSeqs(n - 1) : Len(q) = n - 1},
                                t \in MatchTokens}

\* event types of up to MaxTypeLen tokens
MatchTypes == TokenSeqs(MaxTypeLen)

\* exact patterns, and patterns with one star at the end
MatchPatterns ==
    TokenSeqs(MaxTypeLen - 1) \cup {Append(s, "*") : s \in TokenSeqs(MaxTypeLen - 1)}

\* whether the handlers of the pattern are called for a message of the type
handler_invoked(kind, pattern, type) ==
    pattern_hit(kind, pattern,
                BusMessage("message", bus_channel(kind, type), BusEvent(1, type)))

MatchCall(pattern, type) ==
    [pattern |-> pattern, type |-> type,
     backend |-> handler_invoked("backend", pattern, type),
     strategy |-> handler_invoked("strategy", pattern, type),
     backend_sent |-> broker_matches("backend", pattern, bus_channel("backend", type)),
     strategy_sent |-> broker_matches("strategy", pattern, bus_channel("strategy", type))]

\* The matchers keep no state, so a behaviour looks at one application.
Match(pattern, type) ==
    /\ match_call = None
    /\ UNCHANGED notMatch
    /\ match_call' = Some(MatchCall(pattern, type))

InitMatch == match_call = None

NextMatch == \E pattern \in MatchPatterns, type \in MatchTypes : Match(pattern, type)

(***************************************************************************)
(* Position rows (backend models/position.py).  A row is loaded with its   *)
(* non-null columns set; prices, quantities and fees are whole numbers     *)
(* here, and the percentage an exact fraction.                             *)
(***************************************************************************)
RowSides == {"long", "short"}
PositionPrices == 1..MaxPositionPrice
PositionQuantities == {1, 2}
PositionFees == {0, 1}

PositionCall(op, price) == [op |-> op, price |-> price]

\* a position as it is stored after its opening fill
PositionRow(side, quantity, price, fees) ==
    [side |-> side, status |-> "open", quantity |-> quantity,
     average_entry_price |-> price, entry_value |-> quantity * price,
     current_price |-> None, current_value |-> None,
     unrealized_pnl |-> 0, unrealized_pnl_percent |-> Whole(0),
     realized_pnl |-> 0, realized_pnl_percent |-> Whole(0),
     max_unrealized_pnl |-> 0, max_drawdown |-> 0, total_fees |-> fees]

PositionLoad(side, quantity, price, fees) ==
    /\ position_row = None
    /\ UNCHANGED notPosition
    /\ position_row' = Some(PositionRow(side, quantity, price, fees))
    /\ position_call' = PositionCall("load", price)

\* a profit figure that counts the price difference of a long position for
\* a short one too
pnl_as_long(side, price, average_entry_price, quantity, total_fees) ==
    (price - average_entry_price) * quantity - total_fees

\* the profit of a position at a price, fees taken off
pnl_at(side, price, average_entry_price, quantity, total_fees) ==
    (IF side = "long" THEN (price - average_entry_price) * quantity
     ELSE (average_entry_price - price) * quantity) - total_fees

\* Position.update_unrealized_pnl
PositionUpdateUnrealizedPnl(current_price) ==
    /\ position_row # None
    /\ UNCHANGED notPosition
    /\ LET p == position_row[1]
           pnl == pnl_at(p.side, current_price, p.average_entry_price,
                         p.quantity, p.total_fees)
           peak == IF pnl > p.max_unrealized_pnl THEN pnl ELSE p.max_unrealized_pnl
           drawdown == peak - pnl
       IN position_row' = Some([p EXCEPT
              !.current_price = Some(current_price),
              !.current_value = Some(p.quantity * current_price),
              !.unrealized_pnl = pnl,
              !.unrealized_pnl_percent = Rat(pnl * 100, p.entry_value),
              !.max_unrealized_pnl = peak,
              !.max_drawdown = IF peak > 0 /\ drawdown > p.max_drawdown
                               THEN drawdown ELSE p.max_drawdown])
    /\ position_call' = PositionCall("update_unrealized_pnl", current_price)

\* Position.close
PositionClose(exit_price) ==
    /\ position_row # None
    /\ UNCHANGED notPosition
    /\ LET p == position_row[1]
           pnl == pnl_at(p.side, exit_price, p.average_entry_price,
                         p.quantity, p.total_fees)
       IN position_row' = Some([p EXCEPT
              !.status = "closed",
              !.realized_pnl = pnl,
              !.realized_pnl_percent = Rat(pnl * 100, p.entry_value),
              !.quantity = 0])
    /\ position_call' = PositionCall("close", exit_price)

InitPosition ==
    /\ position_row = None
    /\ position_call = PositionCall("none", 0)

NextPosition ==
    \/ \E side \in RowSides, quantity \in PositionQuantities,
          price \in PositionPrices, fees \in PositionFees :
           PositionLoad(side, quantity, price, fees)
    \/ \E price \in PositionPrices : PositionUpdateUnrealizedPnl(price)
    \/ \E price \in PositionPrices : PositionClose(price)

(***************************************************************************)
(* StrategyEngine._on_market_event, one iteration of its loop at a time    *)
(* (strategy-engine/engine/core.py 92-118).  The registry is a dict: its   *)
(* entries in insertion order, a deleted entry leaving a hole (None), and  *)
(* an iterator that remembers the number of entries it started with and    *)
(* raises RuntimeError from its next step once that number has changed.    *)
(* The loop is suspended only while _emit_signal awaits the publish; other *)
(* tasks run register_strategy, unregister_strategy and stop then, or      *)
(* between two events.  The listener task of the bus, which calls the      *)
(* handler, exists from start() on.                                        *)
(***************************************************************************)
RegistryBots == {"bot1", "bot2", "bot3"}

RegistryEntry(bot_id, symbol) == [bot_id |-> bot_id, symbol |-> symbol]

\* len(self.strategies)
registry_used(entries) ==
    Cardinality({ k \in 1..Len(entries) : entries[k] # None })

\* the index of a bot's entry, 0 when the bot is not registered
registry_index(entries, bot_id) ==
    LET found == { k \in 1..Len(entries) :
                     entries[k] # None /\ entries[k][1].bot_id = bot_id }
    IN  IF found = {} THEN 0 ELSE CHOOSE k \in found : TRUE

\* the bots registered for a symbol
registered_for(entries, symbol) ==
    { entries[k][1].bot_id :
        k \in { j \in 1..Len(entries) :
                  entries[j] # None /\ entries[j][1].symbol = symbol } }

\* whether another task may run: no event is being handled, or the handler
\* is waiting in _emit_signal
others_may_run ==
    IF reg_dispatch = None THEN TRUE ELSE reg_dispatch[1].phase = "emitting"

\* what a change of a bot's entry leaves of the dispatch in progress
touched_by(bot_id) ==
    IF reg_dispatch = None THEN reg_dispatch
    ELSE Some([reg_dispatch[1] EXCEPT !.touched = @ \cup {bot_id}])

\* core.py 71-75: self.strategies[bot_id] = strategy
RegistryRegister(bot_id, symbol) ==
    /\ UNCHANGED << notRegistry, reg_engine >>
    /\ others_may_run
    /\ LET k == registry_index(reg_entries, bot_id)
       IN  IF k = 0
           THEN /\ Len(reg_entries) < MaxRegistryEntries
                /\ reg_entries' = Append(reg_entries,
                                         Some(RegistryEntry(bot_id, symbol)))
           ELSE reg_entries' = [reg_entries EXCEPT
                                  ![k] = Some(RegistryEntry(bot_id, symbol))]
    /\ reg_dispatch' = touched_by(bot_id)

\* core.py 77-82: del self.strategies[bot_id] when the bot is registered
RegistryUnregister(bot_id) ==
    /\ UNCHANGED << notRegistry, reg_engine >>
    /\ others_may_run
    /\ LET k == registry_index(reg_entries, bot_id)
       IN  IF k = 0
           THEN UNCHANGED << reg_entries, reg_dispatch >>
           ELSE /\ reg_entries' = [reg_entries EXCEPT ![k] = None]
                /\ reg_dispatch' = touched_by(bot_id)

\* core.py 92-102: an event with a symbol arrives; the for statement takes
\* an iterator of self.strategies.items()
MarketEventBegin(symbol) ==
    /\ UNCHANGED << notRegistry, reg_engine >>
    /\ reg_engine # "created"
    /\ reg_dispatch = None
    /\ reg_dispatch' =
          Some([symbol |-> symbol, used |-> registry_used(reg_entries),
                pos |-> 0, phase |-> "looping",
                matching |-> registered_for(reg_entries, symbol),
                received |-> {}, touched |-> {}])
    /\ UNCHANGED reg_entries

\* the dict iterator's test before every step, the last one included
iterator_raises(entries, used) == registry_used(entries) # used

\* the index of the next entry after pos, 0 when there is none
next_entry(entries, pos) ==
    LET rest == { k \in (pos + 1)..Len(entries) : entries[k] # None }
    IN  IF rest = {} THEN 0 ELSE CHOOSE k \in rest : \A j \in rest : k =< j

\* core.py 102-118: one step of the loop.  The strategy of a matching entry
\* is called; signal tells whether it returns one, and then the handler
\* waits in _emit_signal.
MarketEventNext(signal) ==
    /\ UNCHANGED << notRegistry, reg_engine >>
    /\ reg_dispatch # None
    /\ reg_dispatch[1].phase = "looping"
    /\ UNCHANGED reg_entries
    /\ LET d == reg_dispatch[1]
           k == next_entry(reg_entries, d.pos)
       IN  IF iterator_raises(reg_entries, d.used)
           THEN reg_dispatch' = Some([d EXCEPT !.phase = "RuntimeError"])
           ELSE IF k = 0
           THEN reg_dispatch' = Some([d EXCEPT !.phase = "returned"])
           ELSE IF reg_entries[k][1].symbol # d.symbol
           THEN /\ ~signal
                /\ reg_dispatch' = Some([d EXCEPT !.pos = k])
           ELSE reg_dispatch' =
                  Some([d EXCEPT !.pos = k,
                                 !.received = @ \cup {reg_entries[k][1].bot_id},
                                 !.phase = IF signal THEN "emitting"
                                           ELSE "looping"])

\* core.py 131-138: the publish of the signal returns
MarketEventEmitted ==
    /\ UNCHANGED << notRegistry, reg_engine >>
    /\ reg_dispatch # None
    /\ reg_dispatch[1].phase = "emitting"
    /\ reg_dispatch' = Some([reg_dispatch[1] EXCEPT !.phase = "looping"])
    /\ UNCHANGED reg_entries

\* event_bus.py 71-81: the handler has returned or raised (the bus drops
\* the exception) and the listener goes on to its next message
MarketEventDone ==
    /\ UNCHANGED << notRegistry, reg_engine >>
    /\ reg_dispatch # None
    /\ reg_dispatch[1].phase \in {"returned", "RuntimeError"}
    /\ reg_dispatch' = None
    /\ UNCHANGED reg_entries

\* core.py 34-51: start() subscribes the two handlers, which creates the
\* listener task of the bus (event_bus.py 23-36), and starts the main loop
RegistryEngineStart ==
    /\ UNCHANGED notRegistry
    /\ reg_engine = "created"
    /\ reg_engine' = "running"
    /\ UNCHANGED << reg_entries, reg_dispatch >>

\* core.py 53-69: stop() cancels the tasks of self._tasks, which holds the
\* main loop only, and closes the connection; the listener task of the bus
\* is not among them.  The state is the one stop() returns in.
RegistryEngineStop ==
    /\ UNCHANGED notRegistry
    /\ reg_engine = "running"
    /\ others_may_run
    /\ reg_engine' = "stopped"
    /\ UNCHANGED << reg_entries, reg_dispatch >>

InitRegistry ==
    /\ reg_engine = "created"
    /\ reg_entries = << >>
    /\ reg_dispatch = None

NextRegistry ==
    \/ \E bot_id \in RegistryBots, symbol \in Symbols :
           RegistryRegister(bot_id, symbol)
    \/ \E bot_id \in RegistryBots : RegistryUnregister(bot_id)
    \/ \E symbol \in Symbols : MarketEventBegin(symbol)
    \/ \E signal \in BOOLEAN : MarketEventNext(signal)
    \/ MarketEventEmitted
    \/ MarketEventDone
    \/ RegistryEngineStart
    \/ RegistryEngineStop

(***************************************************************************)
(* Specifications                                                          *)
(***************************************************************************)
Init ==
    /\ InitRisk /\ InitKill /\ InitOrders
    /\ InitGrid /\ InitDca /\ InitScalp /\ InitEngine /\ InitBus
    /\ InitBot /\ InitAdapter /\ InitTrade /\ InitMatch /\ InitPosition /\ InitRegistry

SpecRisk == Init /\ [][NextRisk]_vars

SpecKill == Init /\ [][NextKill]_vars

\* The kill switch beside a risk engine whose orders are being validated.
NextGuard ==
    \/ NextKill
    \/ \E symbol \in Symbols, side \in Sides, quantity \in Quantities,
          price \in Prices, leverage \in Leverages,
          portfolio_value \in Equities :
            ValidateOrder(symbol, side, quantity, price, leverage,
                          portfolio_value)
SpecGuard == Init /\ [][NextGuard]_vars

SpecOrders == Init /\ [][NextOrders]_vars

SpecGrid == Init /\ [][NextGrid]_vars

SpecDca == Init /\ [][NextDca]_vars

SpecScalp == Init /\ [][NextScalp]_vars

SpecEngine == Init /\ [][NextEngine]_vars

SpecBus == Init /\ [][NextBus]_vars

SpecBot == Init /\ [][NextBot]_vars

SpecAdapter == Init /\ [][NextAdapter]_vars

SpecTrade == Init /\ [][NextTrade]_vars

SpecMatch == Init /\ [][NextMatch]_vars

SpecPosition == Init /\ [][NextPosition]_vars

SpecRegistry == Init /\ [][NextRegistry]_vars

(***************************************************************************)
(* Claims                                                                  *)
(***************************************************************************)
Max(a, b) == IF a > b THEN a ELSE b

SomeValidateOrder ==
    \E symbol \in Symbols, side \in Sides, quantity \in Quantities,
       price \in Prices, leverage \in Leverages,
       portfolio_value \in Equities :
         ValidateOrder(symbol, side, quantity, price, leverage,
                       portfolio_value)

\* C1: once KillSwitch.activate has set the switch (is_active, until a
\* deactivate with a confirmation code clears it), every validate_order call
\* on the risk engine returns valid = false.
C1_ActiveSwitchRejectsOrders ==
    [][(is_active /\ SomeValidateOrder) => ~risk_call'.ret.valid]_vars

\* C2: after trigger_kill_switch, validate_order returns valid = false for
\* every combination of arguments, in every state the engine passes through,
\* and the only step that ends this is reset_kill_switch.
C2_TriggeredEngineRejectsOrders ==
    /\ [](is_killed =>
            \A symbol \in Symbols, side \in Sides, quantity \in Quantities,
               price \in Prices, leverage \in Leverages,
               portfolio_value \in Equities :
                 ~validate_order(symbol, side, quantity, price, leverage,
                                 portfolio_value).valid)
    /\ [][(is_killed /\ SomeValidateOrder) => ~risk_call'.ret.valid]_vars
    /\ [][(is_killed /\ ~is_killed') => ResetKillSwitch]_vars

\* C2 witness: a killed engine whose limits, positions, peak and daily
\* tracking were all changed has just rejected an order for the kill switch.
C2_Witness ==
    /\ is_killed
    /\ risk_call = RiskCall("validate_order",
                            Result(FALSE, "Kill switch active"))
    /\ limits # DefaultLimits
    /\ positions # << >>
    /\ peak_equity > 0
    /\ last_reset_date # None

\* C3: KillSwitch.is_active, once true, is set back to false only by a
\* deactivate called with a non-empty confirmation code; a deactivate
\* without one fails with ValueError and changes nothing.
C3_ActiveUntilConfirmedDeactivate ==
    /\ [][(is_active /\ ~is_active') =>
            \E code \in ConfirmationCodes :
                code # None /\ code[1] # "" /\ Deactivate(code)]_vars
    /\ [][(Deactivate(None) \/ Deactivate(Some(""))) =>
            /\ ks_call'.err = "ValueError"
            /\ UNCHANGED << is_active, events, affected_bots >>]_vars

\* C3 witness: a deactivate without a code has just failed on an active
\* switch that had been activated twice.
C3_Witness ==
    /\ is_active
    /\ ks_call = KsCall("deactivate", None, "ValueError")
    /\ Len(events) = 2

\* C4: validate_order reports the first failing check in the order kill
\* switch, leverage, position size, open positions, daily loss, drawdown,
\* and returns valid = true only when none fails.
C4_FirstFailingCheckReported ==
    \A symbol \in Symbols, side \in Sides, quantity \in Quantities,
       price \in Prices, leverage \in Leverages,
       portfolio_value \in Equities :
        LET r  == validate_order(symbol, side, quantity, price, leverage,
                                 portfolio_value)
            f1 == is_killed
            f2 == leverage > limits.max_leverage
            f3 == /\ portfolio_value > 0
                  /\ quantity * price * 100
                        > limits.max_position_size_percent * portfolio_value
            f4 == /\ Cardinality(DOMAIN positions) >= limits.max_open_positions
                  /\ symbol \notin DOMAIN positions
            f5 == /\ starting_equity_today > 0
                  /\ (0 - realized_pnl_today) * 100
                        >= limits.daily_loss_limit_percent
                             * starting_equity_today
            f6 == /\ peak_equity > 0
                  /\ (peak_equity - portfolio_value) * 100
                        >= limits.max_drawdown_percent * peak_equity
        IN  /\ r.valid <=> ~(f1 \/ f2 \/ f3 \/ f4 \/ f5 \/ f6)
            /\ r.valid => r.reason = "None"
            /\ f1 => r.reason = "Kill switch active"
            /\ (~f1 /\ f2) => r.reason = "Leverage"
            /\ (~f1 /\ ~f2 /\ f3) => r.reason = "Position size"
            /\ (~f1 /\ ~f2 /\ ~f3 /\ f4) => r.reason = "Max open positions"
            /\ (~f1 /\ ~f2 /\ ~f3 /\ ~f4 /\ f5) => r.reason = "Daily loss limit"
            /\ (~f1 /\ ~f2 /\ ~f3 /\ ~f4 /\ ~f5 /\ f6) => r.reason = "Max drawdown"

\* C4 witness: an order was rejected for its leverage in a state where the
\* open-position, daily-loss and drawdown checks would have failed as well.
C4_Witness ==
    /\ ~is_killed
    /\ risk_call = RiskCall("validate_order", Result(FALSE, "Leverage"))
    /\ Cardinality(DOMAIN positions) >= limits.max_open_positions
    /\ check_daily_loss_exceeded
    /\ check_max_drawdown_exceeded(90)

\* C5: with the kill switch off, leverage within the limit and a positive
\* portfolio value, validate_order rejects with "Position size" exactly when
\* quantity x price / portfolio_value x 100 exceeds the limit.
C5_PositionSizeLimit ==
    \A symbol \in Symbols, side \in Sides, quantity \in Quantities,
       price \in Prices, leverage \in Leverages,
       portfolio_value \in Equities :
        (~is_killed /\ leverage =< limits.max_leverage /\ portfolio_value > 0)
        => LET r == validate_order(symbol, side, quantity, price, leverage,
                                   portfolio_value)
           IN  IF quantity * price * 100
                    > limits.max_position_size_percent * portfolio_value
               THEN r = Result(FALSE, "Position size")
               ELSE r.reason # "Position size"

\* C5 witness: an order was rejected for its size while an order of value 6
\* on a portfolio of 100 exceeds the 5% limit and one of value 5 does not.
C5_Witness ==
    /\ ~is_killed
    /\ risk_call = RiskCall("validate_order", Result(FALSE, "Position size"))
    /\ limits.max_position_size_percent = 5
    /\ position_size_exceeded(3, 2, 100)
    /\ ~position_size_exceeded(1, 5, 100)

\* C6: peak_equity never decreases in any step, and a
\* calculate_portfolio_risk(e) step leaves it at max(previous peak, e).
C6_PeakEquityMonotone ==
    [][/\ peak_equity' >= peak_equity
       /\ \A e \in Equities :
            CalculatePortfolioRisk(e) => peak_equity' = Max(peak_equity, e)
      ]_vars

\* C6 witness: calculate_portfolio_risk was called with an equity below the
\* peak, which stayed.
C6_Witness ==
    /\ risk_call.op = "calculate_portfolio_risk"
    /\ risk_call.ret.total_equity = 90
    /\ peak_equity = 100

\* C7: on an inactive switch check_conditions activates and returns an
\* event exactly when a condition is breached, with the trigger of the first
\* breached condition; on an active switch it returns None and appends no
\* event.
C7_CheckConditionsActivation ==
    [][\A cd \in DrawdownInputs, md \in MaxDrawdownInputs,
          dl \in DailyLossInputs, mdl \in MaxDailyLossInputs,
          healthy \in BOOLEAN :
        CheckConditions(cd, md, dl, mdl, healthy) =>
            LET breach  == cd >= md \/ dl >= mdl \/ ~healthy
                trigger == IF cd >= md THEN "max_drawdown"
                           ELSE IF dl >= mdl THEN "daily_loss"
                           ELSE "exchange_error"
            IN  IF is_active \/ ~breach
                THEN /\ ks_call'.ret = None
                     /\ UNCHANGED << is_active, events >>
                ELSE /\ is_active'
                     /\ ks_call'.ret # None
                     /\ ks_call'.ret[1].trigger = trigger
                     /\ events' = Append(events, ks_call'.ret[1])
      ]_vars

\* C7 witness: check_conditions has just activated the switch for a drawdown
\* of 11% against a limit of 10%.
C7_Witness ==
    /\ is_active
    /\ ks_call.op = "check_conditions"
    /\ ks_call.ret # None
    /\ ks_call.ret[1].trigger = "max_drawdown"
    /\ events = << ks_call.ret[1] >>

\* C8: once daily tracking has been reset on a UTC day, a further
\* reset_daily_tracking on the same day leaves starting_equity_today and
\* realized_pnl_today unchanged.
C8_OneResetPerDay ==
    [][\A e \in Equities :
        (ResetDailyTracking(e) /\ last_reset_date = Some(utc_today))
        => UNCHANGED << starting_equity_today, realized_pnl_today >>]_vars

Terminal == {"filled", "cancelled", "rejected", "expired"}

\* The place of a status along pending -> submitted -> open -> partial ->
\* terminal.
StatusRank(status) ==
    CASE status = "pending" -> 0
      [] status = "submitted" -> 1
      [] status = "open" -> 2
      [] status = "partial" -> 3
      [] OTHER -> 4

\* C9: an order's status only advances: a terminal status never changes
\* again and a non-terminal one never moves backwards.
C9_StatusOnlyAdvances ==
    [][\A i \in 1..Len(orders) :
        /\ orders[i].status \in Terminal
              => orders'[i].status = orders[i].status
        /\ StatusRank(orders'[i].status) >= StatusRank(orders[i].status)
      ]_vars

\* C10: cancel_order (the service method or the route called by the owner)
\* moves an open or partial order to cancelled and emits order.cancelled;
\* on an order in a terminal status it fails, emits nothing and leaves the
\* order's status and cancelled_at unchanged.
C10_CancelOrder ==
    [][\A i \in 1..Len(orders) :
        (CancelOrder(i) \/ CancelOrderRoute(i, orders[i].user_id)) =>
            /\ orders[i].status \in {"open", "partial"} =>
                  /\ orders'[i].status = "cancelled"
                  /\ order_call'.err = "None"
                  /\ \E k \in 1..Len(published') :
                        /\ published'[k].type = "order.cancelled"
                        /\ published'[k].order_id = i
            /\ orders[i].status \in Terminal =>
                  /\ order_call'.err # "None"
                  /\ published' = << >>
                  /\ orders'[i].status = orders[i].status
                  /\ orders'[i].cancelled_at = orders[i].cancelled_at
      ]_vars

\* C11: filled_quantity <= quantity holds for every order in every
\* reachable state, whatever fills update_order_status has been given.
C11_FilledWithinQuantity ==
    \A i \in 1..Len(orders) : orders[i].filled_quantity =< orders[i].quantity

\* C12: every create_order call persists exactly one new order, in status
\* pending, and emits an order.created event for that order.
C12_CreateOrderPersistsAndEmits ==
    [][\A user_id \in Users, quantity \in {2} :
        CreateOrder(user_id, quantity) =>
            /\ Len(orders') = Len(orders) + 1
            /\ orders'[Len(orders')].status = "pending"
            /\ \E k \in 1..Len(published') :
                  /\ published'[k].type = "order.created"
                  /\ published'[k].order_id = Len(orders')
      ]_vars

\* C13: an update of an order's fill state emits order.partial for a
\* transition to partial, and emits order.filled only when the order
\* becomes filled: never for an update to another status.
C13_FillEventsFollowStatus ==
    [][\A i \in 1..Len(orders), status \in OrderStatus, report \in FillReports :
        UpdateOrderStatus(i, status, report) =>
            /\ status = "partial" =>
                  \E k \in 1..Len(published') :
                      published'[k].type = "order.partial"
            /\ status # "filled" =>
                  \A k \in 1..Len(published') :
                      published'[k].type # "order.filled"
      ]_vars

\* C14: grid levels alternate intent: on an in-range tick of an active
\* grid, when some level that has emitted its BUY (sell intent) has a price
\* at or below the tick's, on_tick emits a SELL at such a level's price and
\* the level returns to buy intent.
C14_LevelsAlternateIntent ==
    [][\A price \in GridTickPrices \ {0} :
        ( /\ GridOnTick(price)
          /\ ~grid_dormant(grid_params[1], grid_is_active, price)
          /\ ~out_of_range(grid_params[1], price)
          /\ \E k \in 1..Len(grid_levels) :
                /\ ~grid_levels[k].is_buy
                /\ RatLE(grid_levels[k].price, << price, 1 >>) )
        => /\ grid_call'.signal # None
           /\ grid_call'.signal[1].type = "sell"
           /\ \E k \in 1..Len(grid_levels) :
                /\ ~grid_levels[k].is_buy
                /\ RatLE(grid_levels[k].price, << price, 1 >>)
                /\ grid_call'.signal[1].price = grid_levels[k].price
                /\ grid_levels'[k].is_buy
      ]_vars

\* The prices of the levels currently in buy intent, and in sell intent.
BuyIntentPrices ==
    { grid_levels[k].price : k \in { j \in 1..Len(grid_levels) :
                                        grid_levels[j].is_buy } }
SellIntentPrices ==
    { grid_levels[k].price : k \in { j \in 1..Len(grid_levels) :
                                        ~grid_levels[j].is_buy } }

\* C15: for an arithmetic grid that has been built, the levels in buy intent
\* together with the levels in sell intent are the full initial grid of
\* grid_count + 1 levels, each at its initial price: on_tick adds, removes
\* and re-prices no level.
C15_GridLevelsPreserved ==
    (grid_levels # << >> /\ grid_type(grid_params[1]) = "arithmetic") =>
        /\ Len(grid_levels) = grid_params[1].grid_count + 1
        /\ \A k \in 1..Len(grid_levels) :
              grid_levels[k].price = arithmetic_price(grid_params[1], k - 1)
        /\ BuyIntentPrices \cup SellIntentPrices =
              { arithmetic_price(grid_params[1], i) :
                    i \in 0..grid_params[1].grid_count }
        /\ Cardinality(BuyIntentPrices \cup SellIntentPrices) =
              grid_params[1].grid_count + 1

\* An arithmetic grid after ticks that fired several levels, some levels in
\* sell intent and some in buy intent.
C15_Witness ==
    /\ grid_levels # << >>
    /\ grid_type(grid_params[1]) = "arithmetic"
    /\ grid_call.op = "on_tick"
    /\ grid_call.signal # None
    /\ Cardinality(SellIntentPrices) >= 2
    /\ BuyIntentPrices # {}

\* The last call was an on_tick that returned the take-profit SELL.
TakeProfitReturned ==
    /\ dca_call.op = "on_tick"
    /\ dca_call.signal # None
    /\ dca_call.signal[1].type = "sell"
    /\ dca_call.signal[1].reason = "Take profit"

\* C16: after the base order, with total_quantity > 0, a tick with a price
\* returns the take-profit SELL (of total_quantity, whatever stop loss and
\* safety orders would do) exactly when
\* ((price - average_entry) / average_entry) * 100 >= take_profit_percent.
C16_TakeProfitAtThreshold ==
    [][\A price \in DcaTickPrices :
        ( /\ DcaOnTick(price)
          /\ price[1] # 0
          /\ dca_base_order_filled
          /\ RatLT(Whole(0), dca_total_quantity) )
        => ( ( /\ TakeProfitReturned'
               /\ dca_call'.signal[1].quantity = dca_total_quantity
               /\ dca_call'.signal[1].price = price )
             <=> RatLE(RatMul(dca_params[1].take_profit_pct,
                              dca_average_entry),
                       RatMul(RatSub(price, dca_average_entry), Whole(100))) )
      ]_vars

\* Average 99, take profit 2 %: the tick at 101.02 has returned the SELL.
C16_Witness ==
    /\ TakeProfitReturned
    /\ dca_average_entry = Whole(99)
    /\ dca_params[1].take_profit_pct = Whole(2)
    /\ dca_current_price = Hundredths(10102)

\* C17: after any sequence of on_order_filled calls, total_quantity is the
\* sum of the filled quantities, total_invested the sum of quantity x price
\* over the fills (each fill adds its own, nothing else changes them), and
\* average_entry = total_invested / total_quantity.
C17_AverageEntry ==
    /\ [](RatLT(Whole(0), dca_total_quantity) =>
            /\ dca_average_entry =
                  RatDiv(dca_total_invested, dca_total_quantity)
            /\ RatMul(dca_average_entry, dca_total_quantity) =
                  dca_total_invested)
    /\ [][\A quantity \in DcaFillQuantities, price \in DcaFillPrices :
            DcaOnOrderFilled(quantity, price) =>
                /\ dca_total_quantity' = RatAdd(dca_total_quantity, quantity)
                /\ dca_total_invested' =
                      RatAdd(dca_total_invested, RatMul(quantity, price))
         ]_vars
    /\ [][(~ \E quantity \in DcaFillQuantities, price \in DcaFillPrices :
              DcaOnOrderFilled(quantity, price))
            => UNCHANGED << dca_total_quantity, dca_total_invested,
                            dca_average_entry >>
         ]_vars

\* The base order and two safety orders filled, 100 each at 100, 99 and 98:
\* the average is 99; and two fills whose average is no whole number.
C17_Witness ==
    /\ dca_call.op = "on_order_filled"
    /\ \/ /\ dca_total_quantity = Whole(300)
          /\ dca_total_invested = Whole(29700)
          /\ dca_average_entry = Whole(99)
       \/ /\ dca_total_quantity = Whole(200)
          /\ dca_total_invested = Whole(19900)
          /\ dca_average_entry = Hundredths(9950)

C19_TimeLimitClosesPosition ==
    [][\A tick \in ScalpTicks :
        ( /\ ScalpOnTick(tick)
          /\ tick.price[1] # 0 /\ tick.bid[1] # 0 /\ tick.ask[1] # 0
          /\ scalp_position_size[1] # 0
          /\ scalp_position_open_time # None
          /\ scalp_now - scalp_position_open_time[1] >=
                (IF scalp_params[1].position_time_limit = None
                 THEN DefaultPositionTimeLimit
                 ELSE scalp_params[1].position_time_limit[1]) )
        => /\ scalp_call'.signal # None
           /\ scalp_call'.signal[1].reason = "Position time limit reached"
           /\ scalp_call'.signal[1].price = tick.price
           /\ scalp_entry_side = Some("long")
                 => scalp_call'.signal[1].type = "close_long"
           /\ scalp_entry_side = Some("short")
                 => scalp_call'.signal[1].type = "close_short"
      ]_vars

\* A long entry closed by the time limit, exactly at the limit, on a tick
\* whose price had reached the take profit.
C19_Witness ==
    /\ scalp_call.op = "on_tick"
    /\ scalp_call.signal # None
    /\ scalp_call.signal[1].reason = "Position time limit reached"
    /\ scalp_call.signal[1].type = "close_long"
    /\ scalp_entry_side = Some("long")
    /\ scalp_position_size[1] # 0
    /\ scalp_now - scalp_position_open_time[1] =
          position_time_limit(scalp_params[1])
    /\ RatLE(scalp_params[1].take_profit_ticks,
             RatDiv(RatSub(scalp_current_price, scalp_entry_price),
                    tick_size))

\* C20: a market event invokes a callback only on registered strategies
\* whose symbol is the event's, and the callback of the event's type
\* (on_tick for market.tick, on_candle for market.kline, on_orderbook for
\* market.orderbook); signals come only from invoked callbacks; an event
\* without a symbol, or of another market type, invokes no callback and
\* publishes no signal.
C20_DispatchBySymbol ==
    [][( /\ eng_call'.op = "_on_market_event"
         /\ \E outcome \in [BotIds -> CallbackOutcomes] :
                OnMarketEvent(eng_call'.arg, outcome) )
       => LET type == eng_call'.arg.type
              symbol == eng_call'.arg.symbol
          IN  /\ \A k \in 1..Len(eng_invoked') :
                    /\ symbol # None
                    /\ \E j \in 1..Len(eng_strategies) :
                          /\ eng_strategies[j].bot_id = eng_invoked'[k].bot_id
                          /\ eng_strategies[j].symbol = symbol[1]
                    /\ \/ type = "market.tick"
                            /\ eng_invoked'[k].callback = "on_tick"
                       \/ type = "market.kline"
                            /\ eng_invoked'[k].callback = "on_candle"
                       \/ type = "market.orderbook"
                            /\ eng_invoked'[k].callback = "on_orderbook"
              /\ \A k \in 1..Len(eng_signals') :
                    \E j \in 1..Len(eng_invoked') :
                        eng_invoked'[j].bot_id = eng_signals'[k]
              /\ (symbol \in {None, Some("")}
                    \/ type \notin {"market.tick", "market.kline",
                                    "market.orderbook"})
                    => eng_invoked' = << >> /\ eng_signals' = << >>
      ]_vars

\* Two strategies on different symbols; the event reached one of them, and
\* its signal was published.
C20_Witness ==
    /\ eng_call.op = "_on_market_event"
    /\ Len(eng_strategies) = 2
    /\ eng_strategies[1].symbol # eng_strategies[2].symbol
    /\ Len(eng_invoked) = 1
    /\ eng_signals = << eng_invoked[1].bot_id >>

\* C21: a strategy is dispatched market events only after validate_params
\* has returned true and initialize has completed: no strategy whose
\* validate_params returns false is ever in the registry, and every callback
\* a market event invokes is on a valid, initialized strategy.
C21_OnlyValidatedStrategiesDispatched ==
    /\ [](\A k \in 1..Len(eng_strategies) : eng_strategies[k].params_valid)
    /\ [][eng_call'.op = "_on_market_event" =>
            \A k \in 1..Len(eng_invoked') :
                \E j \in 1..Len(eng_strategies) :
                    /\ eng_strategies[j].bot_id = eng_invoked'[k].bot_id
                    /\ eng_strategies[j].params_valid
                    /\ eng_strategies[j].is_running
         ]_vars

C23_RaisingBotStopped ==
    [][eng_call'.op = "_on_market_event" =>
        \A k \in 1..Len(eng_errors') :
            /\ key_index(eng_strategies', eng_errors'[k]) = 0
            /\ \E j \in 1..Len(eng_signals') :
                  /\ BotSignalEvent(eng_signals'[j]).type = "bot.error"
                  /\ BotSignalEvent(eng_signals'[j]).bot_id = eng_errors'[k]
      ]_vars

\* C24: in both event buses an exception raised by a handler is swallowed:
\* the step in which a handler raises leaves the listener running, the
\* message in hand and the queued messages as they were, and removes only
\* that invocation from those still to run; when the handling of a message
\* ends, every handler that matched it has been invoked since the message
\* was taken.
C24_HandlerErrorSwallowed ==
    /\ [][(/\ bus_call'.op = "handler"
           /\ bus_call'.outcome = "raise"
           /\ \E i \in 1..Len(bus_tasks) : BusRunHandler(i, "raise"))
          => /\ bus_listening'
             /\ bus_current' = bus_current
             /\ bus_queue' = bus_queue
             /\ Len(bus_tasks') = Len(bus_tasks) - 1]_vars
    /\ [][(bus_call'.op = "handled" /\ BusHandled)
          => \A k \in 1..Len(bus_current[1].dispatched) :
                \E i \in (bus_current[1].start + 1)..Len(bus_log') :
                    bus_log'[i] = bus_current[1].dispatched[k]]_vars

\* a handler of the strategy-engine bus returned after an earlier handler
\* of the same message had raised
C24_Witness ==
    /\ bus_kind = Some("strategy")
    /\ bus_call.op = "handler"
    /\ bus_call.outcome = "ok"
    /\ bus_call.raised

\* C25: delivery is at-most-once: no handler is invoked twice for the same
\* published event, also when several subscribed patterns match its topic.
C25_AtMostOnce ==
    \A i, j \in 1..Len(bus_log) :
        i < j => ~(/\ bus_log[i].handler = bus_log[j].handler
                   /\ bus_log[i].event = bus_log[j].event)

\* C26: for one publisher and one topic every handler observes the events
\* in publish order: no invocation of a handler for an event comes after
\* its invocation for a later event of the same topic.
C26_PublishOrderObserved ==
    \A i, j \in 1..Len(bus_log) :
        (/\ i < j
         /\ bus_log[i].handler = bus_log[j].handler
         /\ bus_log[i].type = bus_log[j].type)
        => bus_log[i].event <= bus_log[j].event

\* a handler of the backend bus has been invoked for two events of one topic
C26_Witness ==
    /\ bus_kind = Some("backend")
    /\ \E i, j \in 1..Len(bus_log) :
          /\ i < j
          /\ bus_log[i].handler = bus_log[j].handler
          /\ bus_log[i].type = bus_log[j].type
          /\ bus_log[i].event < bus_log[j].event

C28_ConnectDisconnectIdempotent ==
    [][(\/ adp_call.op = "connect" /\ AdapterConnect
        \/ adp_call.op = "disconnect" /\ AdapterDisconnect)
       => /\ adp_is_connected' = adp_is_connected
          /\ open_sessions(adp_sessions') = open_sessions(adp_sessions)]_vars

\* C29: when every update_position that adds a new symbol follows a
\* validate_order of that symbol that returned valid, the number of
\* positions the RiskEngine tracks never exceeds max_open_positions, also
\* when the sequences of two bots interleave.
C29_OpenPositionsWithinLimit ==
    Cardinality(DOMAIN positions) <= limits.max_open_positions

\* C30: with a trigger_price set, on_tick returns no signal, changes no
\* grid level and leaves the grid inactive as long as no tick has reached
\* the trigger; the first tick with price >= trigger_price makes the grid
\* active, and an active grid stays active whatever the later prices are.
C30_TriggerArmsGridOnce ==
    /\ [][\A price \in GridTickPrices :
            (/\ GridOnTick(price)
             /\ grid_params[1].trigger_price # None
             /\ ~grid_is_active)
            => IF price < grid_params[1].trigger_price[1]
               THEN /\ grid_call'.signal = None
                    /\ grid_levels' = grid_levels
                    /\ ~grid_is_active'
               ELSE grid_is_active']_vars
    /\ [][grid_is_active => grid_is_active']_vars

\* a grid with a trigger, armed by an earlier tick, has fired a level on a
\* tick below the trigger
C30_Witness ==
    /\ grid_params # None
    /\ grid_params[1].trigger_price # None
    /\ grid_is_active
    /\ grid_current_price < grid_params[1].trigger_price[1]
    /\ grid_call.op = "on_tick"
    /\ grid_call.signal # None

\* C31: the base-order BUY of quantity base_order_size is returned by the
\* first tick with a non-zero price and by no tick after it; that tick sets
\* entry_price to its price and the trigger_price of every safety order to
\* entry_price * (1 - deviation_percent / 100).
C31_BaseOrderOnFirstTick ==
    /\ (dca_params # None) => (dca_base_order_filled <=> dca_current_price[1] # 0)
    /\ [][\A price \in DcaTickPrices :
            (DcaOnTick(price) /\ price[1] # 0) =>
               IF ~dca_base_order_filled
               THEN /\ dca_call'.signal # None
                    /\ dca_call'.signal[1].type = "buy"
                    /\ dca_call'.signal[1].reason = "DCA base order"
                    /\ dca_call'.signal[1].quantity = dca_params[1].base_order_size
                    /\ dca_base_order_filled'
                    /\ dca_entry_price' = price
                    /\ Len(dca_safety_orders') = Len(dca_safety_orders)
                    /\ \A k \in 1..Len(dca_safety_orders') :
                          RatMul(dca_safety_orders'[k].trigger_price, Whole(100)) =
                             RatMul(price,
                                    RatSub(Whole(100),
                                           dca_safety_orders'[k].deviation_percent))
               ELSE /\ dca_call'.signal # None
                       => dca_call'.signal[1].reason # "DCA base order"
                    /\ dca_entry_price' = dca_entry_price]_vars

\* the base order of an initialized strategy was returned at 100 and the
\* first safety order waits at 99
C31_Witness ==
    /\ dca_call.op = "on_tick"
    /\ dca_call.signal # None
    /\ dca_call.signal[1].reason = "DCA base order"
    /\ dca_entry_price = Whole(100)
    /\ Len(dca_safety_orders) = 3
    /\ dca_safety_orders[1].trigger_price = Whole(99)
    /\ dca_safety_orders[3].trigger_price = Whole(97)

\* C32: a tick returns the BUY of a safety order only when that order is
\* unfilled, the price is at or below its trigger_price and no
\* lower-numbered unfilled order has its trigger reached; the tick marks
\* that order filled and no other, a tick that returns no safety order
\* marks none, and a filled order never becomes unfilled again, so each
\* safety order is returned at most once and at most one per tick.
C32_SafetyOrderFiresOnce ==
    /\ [][\A price \in DcaTickPrices :
            (DcaOnTick(price) /\ dca_base_order_filled) =>
               LET fired == dca_call'.signal # None /\ dca_call'.signal[1].reason = "Safety order"
                   n == IF fired THEN dca_call'.signal[1].indicators ELSE 0
               IN /\ fired =>
                        /\ n \in 1..Len(dca_safety_orders)
                        /\ ~dca_safety_orders[n].is_filled
                        /\ RatLE(price, dca_safety_orders[n].trigger_price)
                        /\ dca_call'.signal[1].type = "buy"
                        /\ dca_call'.signal[1].quantity = dca_safety_orders[n].size
                        /\ \A j \in 1..(n - 1) :
                              \/ dca_safety_orders[j].is_filled
                              \/ ~RatLE(price, dca_safety_orders[j].trigger_price)
                  /\ Len(dca_safety_orders') = Len(dca_safety_orders)
                  /\ \A k \in 1..Len(dca_safety_orders) :
                        dca_safety_orders'[k] =
                           IF k = n THEN [dca_safety_orders[k] EXCEPT !.is_filled = TRUE]
                           ELSE dca_safety_orders[k]]_vars
    /\ [][\A k \in 1..Len(dca_safety_orders) :
            dca_safety_orders[k].is_filled
            => k <= Len(dca_safety_orders') /\ dca_safety_orders'[k].is_filled]_vars

\* deviation 1 %, step scale 1, three safety orders, entry 100: after the
\* ticks 99 and 98 the tick 97.90 returned nothing and the third safety
\* order is still unfilled
C32_Witness ==
    /\ dca_params # None
    /\ dca_params[1].max_safety_orders = 3
    /\ dca_entry_price = Whole(100)
    /\ Len(dca_safety_orders) = 3
    /\ dca_safety_orders[1].is_filled
    /\ dca_safety_orders[2].is_filled
    /\ ~dca_safety_orders[3].is_filled
    /\ dca_current_price = Hundredths(9790)
    /\ dca_call = DcaCall("on_tick", None, "None")

\* C33, as stated: on_tick returns BUY or SELL only on a tick with price,
\* bid and ask where the strategy has no position and the spread is at most
\* spread_threshold; on such a tick it returns BUY iff the stored imbalance
\* is at least imbalance_threshold and SELL iff the stored imbalance is at
\* most 1 / imbalance_threshold.
C33_EntryByImbalance ==
    [][\A tick \in ScalpTicks :
         ScalpOnTick(tick) =>
            LET signal == scalp_call'.signal
                buy == signal # None /\ signal[1].type = "buy"
                sell == signal # None /\ signal[1].type = "sell"
                complete == tick.price[1] # 0 /\ tick.bid[1] # 0 /\ tick.ask[1] # 0
                flat == scalp_position_size[1] = 0
                threshold == scalp_params[1].imbalance_threshold
                imbalance == stored_imbalance(scalp_orderbook)
            IN IF complete /\ flat
                  /\ RatLE(spread(tick.bid, tick.ask), scalp_params[1].spread_threshold)
               THEN /\ buy <=> RatLE(threshold, imbalance)
                    /\ sell <=> RatLE(imbalance, RatDiv(Whole(1), threshold))
               ELSE ~buy /\ ~sell]_vars

\* C33, amended: as above, but SELL iff the stored imbalance is at most
\* 1 / imbalance_threshold and below imbalance_threshold: when both
\* conditions hold (a threshold of 1 or less) the tick returns BUY.
C33_EntryByImbalanceLongFirst ==
    [][\A tick \in ScalpTicks :
         ScalpOnTick(tick) =>
            LET signal == scalp_call'.signal
                buy == signal # None /\ signal[1].type = "buy"
                sell == signal # None /\ signal[1].type = "sell"
                complete == tick.price[1] # 0 /\ tick.bid[1] # 0 /\ tick.ask[1] # 0
                flat == scalp_position_size[1] = 0
                threshold == scalp_params[1].imbalance_threshold
                imbalance == stored_imbalance(scalp_orderbook)
            IN IF complete /\ flat
                  /\ RatLE(spread(tick.bid, tick.ask), scalp_params[1].spread_threshold)
               THEN /\ buy <=> RatLE(threshold, imbalance)
                    /\ sell <=> /\ RatLE(imbalance, RatDiv(Whole(1), threshold))
                                /\ ~RatLE(threshold, imbalance)
               ELSE ~buy /\ ~sell]_vars

\* a strategy with imbalance threshold 1 and no position returned BUY on a
\* narrow tick while the stored imbalance was 1
C33_Witness ==
    /\ scalp_params # None
    /\ scalp_params[1].imbalance_threshold = Whole(1)
    /\ scalp_position_size[1] = 0
    /\ stored_imbalance(scalp_orderbook) = Whole(1)
    /\ scalp_call.op = "on_tick"
    /\ scalp_call.signal # None
    /\ scalp_call.signal[1].type = "buy"


\* What the documentation says of a pattern: it is the event type itself, or
\* it ends in one star and the event type starts with what is before the star.
C34_Expected ==
    LET c == match_call[1]
        n == Len(c.pattern)
    IN \/ c.pattern = c.type
       \/ /\ n > 0
          /\ c.pattern[n] = "*"
          /\ Len(c.type) >= n - 1
          /\ \A i \in 1..(n - 1) : c.type[i] = c.pattern[i]

\* C34: for every exact pattern and every pattern with one trailing star,
\* the handlers of the pattern are called for an event type exactly when the
\* pattern is the type or the type starts with the part before the star; the
\* backend and the strategy-engine matchers agree, and the broker delivers
\* the message to the subscription whenever the pattern matches.
C34_MatchersAgree ==
    match_call # None =>
        /\ match_call[1].backend = C34_Expected
        /\ match_call[1].strategy = C34_Expected
        /\ C34_Expected => (match_call[1].backend_sent /\ match_call[1].strategy_sent)

\* a trailing-star pattern matched a longer type on both buses
C34_Witness ==
    /\ match_call # None
    /\ match_call[1].pattern = << "order", ".", "*" >>
    /\ match_call[1].type = << "order", ".", "filled" >>
    /\ match_call[1].backend
    /\ match_call[1].strategy

\* a trailing-star pattern refused a type that does not start with its prefix
C34_WitnessRefused ==
    /\ match_call # None
    /\ match_call[1].pattern = << "order", ".", "*" >>
    /\ match_call[1].type = << "order", "filled" >>
    /\ ~match_call[1].backend
    /\ ~match_call[1].strategy

\* C35: after update_unrealized_pnl(current_price) the unrealized profit is
\* (current_price - average_entry_price) x quantity - total_fees for a long
\* position and (average_entry_price - current_price) x quantity - total_fees
\* for a short one.
C35_UnrealizedPnl ==
    position_call.op = "update_unrealized_pnl" =>
        LET p == position_row[1]
        IN /\ p.current_price = Some(position_call.price)
           /\ p.side = "long" =>
                p.unrealized_pnl
                  = (position_call.price - p.average_entry_price) * p.quantity
                      - p.total_fees
           /\ p.side = "short" =>
                p.unrealized_pnl
                  = (p.average_entry_price - position_call.price) * p.quantity
                      - p.total_fees

\* a short position with fees marked below its entry price
C35_Witness ==
    /\ position_call.op = "update_unrealized_pnl"
    /\ position_row[1].side = "short"
    /\ position_row[1].quantity = 2
    /\ position_row[1].total_fees = 1
    /\ position_row[1].average_entry_price = 3
    /\ position_call.price = 1
    /\ position_row[1].unrealized_pnl = 3

\* C36: with portfolio_value 0 validate_order rejects no order for its
\* position size, whatever the quantity and the price; and while peak_equity
\* is 0 such an order is accepted whenever the kill switch is off, the
\* leverage is within max_leverage, the open-position count allows the
\* symbol and the daily loss is below its limit.
C36_ZeroPortfolioSkipsSizeCheck ==
    \A symbol \in Symbols, side \in Sides, quantity \in Quantities,
       price \in Prices, leverage \in Leverages :
        LET r == validate_order(symbol, side, quantity, price, leverage, 0)
            open_positions_allow ==
                \/ Cardinality(DOMAIN positions) < limits.max_open_positions
                \/ symbol \in DOMAIN positions
            daily_loss_passes ==
                \/ starting_equity_today = 0
                \/ (0 - realized_pnl_today) * 100
                      < limits.daily_loss_limit_percent * starting_equity_today
        IN  /\ r.reason # "Position size"
            /\ (/\ peak_equity = 0
                /\ ~is_killed
                /\ leverage =< limits.max_leverage
                /\ open_positions_allow
                /\ daily_loss_passes) => r = Result(TRUE, "None")

\* C36 witness: an order was accepted on an engine that has seen no equity,
\* where the largest order is accepted on an empty portfolio and is too large
\* for every other portfolio value.
C36_Witness ==
    /\ risk_call = RiskCall("validate_order", Result(TRUE, "None"))
    /\ peak_equity = 0
    /\ ~is_killed
    /\ validate_order("BTCUSDT", "buy", 3, 5, 1, 0) = Result(TRUE, "None")
    /\ \A portfolio_value \in Equities \ {0} :
          validate_order("BTCUSDT", "buy", 3, 5, 1, portfolio_value)
            = Result(FALSE, "Position size")

C38_DispatchSurvivesRegistryChange ==
    (reg_dispatch # None
       /\ reg_dispatch[1].phase \in {"returned", "RuntimeError"})
    => \A bot_id \in reg_dispatch[1].matching \ reg_dispatch[1].touched :
          bot_id \in reg_dispatch[1].received

\* the strategies the event in progress has been given to
given_to(dispatch) == IF dispatch = None THEN {} ELSE dispatch[1].received

\* whether the handler is publishing a bot.signal
publishing(dispatch) ==
    IF dispatch = None THEN FALSE ELSE dispatch[1].phase = "emitting"

\* C39: once stop() has returned, no step gives a market event to a strategy
\* and no step begins the publish of a bot.signal.
C39_QuietAfterStop ==
    [][reg_engine = "stopped" =>
          /\ given_to(reg_dispatch') \subseteq given_to(reg_dispatch)
          /\ publishing(reg_dispatch') => publishing(reg_dispatch)
      ]_vars

\* the order types of the two exchanges that are a plain market order
PlainMarketTypes == {"MARKET", "Market"}

\* C40: an order place_order has submitted carries the exchange's type for
\* the requested order type (a market type for market, a limit type for
\* limit, Binance's STOP_MARKET and STOP for the two stop types) and the
\* stop_price it was given, and a stop order is never submitted as a market
\* order without a stop price.
C40_StopOrdersSubmittedAsStops ==
    (adp_call.op = "place_order" /\ adp_call.err = "None") =>
        /\ adp_call.order_type = "market"
              => adp_call.params.type \in PlainMarketTypes
        /\ adp_call.order_type = "limit"
              => adp_call.params.type \in {"LIMIT", "Limit"}
        /\ (adp_kind = Some("binance") /\ adp_call.order_type = "stop_market")
              => adp_call.params.type = "STOP_MARKET"
        /\ (adp_kind = Some("binance") /\ adp_call.order_type = "stop_limit")
              => adp_call.params.type = "STOP"
        /\ adp_call.params.stop_price = adp_call.stop_price
        /\ adp_call.order_type \in {"stop_market", "stop_limit"}
              => ~(adp_call.params.type \in PlainMarketTypes
                     /\ adp_call.params.stop_price = None)
=============================================================================
